---- MODULE Spec2Model ----
(***************************************************************************)
(* The bounded-buffer monitor of src/synchronization/monitor.c (the        *)
(* extended variant, lines 192-590): a ring buffer guarded by one mutex    *)
(* and two condition variables, with timed waits, a waiter list and        *)
(* counters.  Threads call monitor_insert / monitor_remove; the main       *)
(* thread calls monitor_init and may call monitor_destroy.                 *)
(*                                                                         *)
(* Time is counted in ticks of 500 ms: CLOCK_REALTIME reads                *)
(* tv_sec = (now * 500) / 1000, tv_nsec = ((now * 500) % 1000) * 10^6.     *)
(*                                                                         *)
(* A call is cut into the steps between which another thread can run:      *)
(*   idle  --Call-->  lock  --Enter-->  wait | post                        *)
(*   wait  --signal | SpuriousWake | Timeout-->  woken                     *)
(*   woken --Reacquire-->  wait | post                                     *)
(*   post  --InsertFinish | RemoveFinish-->  idle                          *)
(* A thread holds the mutex exactly while it is at post.                   *)
(*                                                                         *)
(* monitor_destroy takes no lock and wakes nobody; what the threads it     *)
(* overtakes meet afterwards is undefined in C and modelled as a choice:   *)
(* the destroyed mutex either still locks or fails to lock (LockFails),    *)
(* a walk over freed waiter records either reads them as they were or      *)
(* kills the process (LoopCrash, FinishCrash).                             *)
(*                                                                         *)
(* Specifications:                                                         *)
(*   Spec        main, two producers, one consumer (timeout_ms = 0),       *)
(*               monitor_destroy                                           *)
(*   SpecCore    two producers and two consumers, never destroyed          *)
(*               (timed calls by the first producer and consumer)          *)
(*   SpecStress  SpecCore with timeout_ms = 0 only, fair scheduling        *)
(*   SpecPair    one producer, one consumer, deadlines never reached       *)
(*   SpecLife    one producer, one consumer, monitor_destroy (also twice)  *)
(*               and monitor_init again afterwards                         *)
(*   SpecWatch   one producer, two consumers, a clock running for seconds  *)
(*                                                                         *)
(* The other programs of the repository follow the monitor, each with its  *)
(* own variables and specification:                                        *)
(*   SpecTestMonitor  src/synchronization/test_monitor.c                   *)
(*   SpecPeterson     src/unnamed/part_000                                 *)
(*   SpecDining       src/synchronization/dining_philosophers.c            *)
(*   SpecRW           src/synchronization/readers_writers.c                *)
(*   SpecPool         src/threads/thread_pool.c                            *)
(*   SpecSimple       src/synchronization/monitor.c, simple variant        *)
(*   SpecStats        monitor.c, the waiting-time statistics               *)
(*   SpecTables       dining_philosophers.c or src/unnamed/part_003        *)
(*   SpecAccess       readers_writers.c or src/unnamed/part_001            *)
(*   SpecClients      thread_pool.c with several submitting threads        *)
(***************************************************************************)
EXTENDS Integers, Sequences, FiniteSets, TLC

\* ------------------------------------------------------------------ bounds
\* The ring size: 10 in the source (monitor.c:207), scaled down here.
BUFFER_SIZE == 2
\* Calls each thread makes.
MaxOps == 2
\* Last clock tick (500 ms each).
MaxNow == 3

Inserters == {"i1", "i2"}
Removers == {"r1", "r2"}
Threads == Inserters \cup Removers
NoThread == "none"
MainThread == "main"
\* The items a producer inserts, in order (rand() % 100 in the source): all
\* distinct, so that a lost, duplicated or reordered item shows.
ItemStream(t) == IF t = "i1" THEN <<3, 7, 9, 11>> ELSE <<4, 8, 10, 12>>
\* timeout_ms arguments: 0 (no deadline) and 1500 (the consumer's).
TimeoutChoices == {0, 1500}

\* ------------------------------------------------------- program constants
MONITOR_SUCCESS == 0
MONITOR_ERROR_MUTEX_INIT == -1
MONITOR_ERROR_MUTEX_LOCK == -3
MONITOR_ERROR_NULL_POINTER == -4
MONITOR_ERROR_TIMEOUT == -5
\* monitor.deadlock_threshold, in seconds.
deadlock_threshold == 5
\* Non-zero results of pthread_cond_timedwait.
ETIMEDOUT == 110
EINVAL == 22

VARIABLES
    buffer, count, in, out, initialized,        \* monitor_t: buffer state
    avg_wait_time,                              \* monitor_t: "0.0", or "measured" once
                                                \* an operation folded its wait in
    waiting_threads, waiting_count,             \* monitor_t: waiter list
    total_insertions, total_removals, total_timeouts,
    mutexOwner,                                 \* holder of monitor.mutex
    pc, ret, timeout_ms, item, ts,              \* per call: position and locals
    opsDone,                                    \* calls of each thread that returned
    lastReturn,                                 \* the latest return: thread, value
                                                \* returned, result of its last wait
    pcMain,                                     \* position of the main thread
    reported,                                   \* what print_monitor_stats printed last
    now,                                        \* the clock
    crashed,                                    \* the process died on a bad heap access
    warned,                                     \* threads the latest check_deadlock scan
                                                \* printed a warning about
    inserted, removed,                          \* history: items stored / returned
    steady,                                     \* history: t's blocking condition held
                                                \* ever since t took the lock
    quiesced                                    \* history: no call was made since
                                                \* print_monitor_stats began

monVars == <<buffer, count, in, out, total_insertions, total_removals, total_timeouts,
             avg_wait_time>>
listVars == <<waiting_threads, waiting_count>>
thrVars == <<pc, ret, timeout_ms, item, ts, opsDone, lastReturn>>
histVars == <<inserted, removed, steady, quiesced>>
monitorVars == <<monVars, listVars, thrVars, histVars, initialized, mutexOwner, pcMain,
                 reported, now, crashed, warned>>

\* ------------------------------------------------- the other programs' state
\* Each program of the repository is a process of its own; its variables
\* move only in its own specification.
VARIABLES
    \* src/synchronization/test_monitor.c
    current_thread, current_priority,           \* test_monitor_t
    operations, errors,                         \* thread_info_t, per thread
    tm_running,                                 \* the flag `running`
    tmPc,                                       \* position of each test thread
    \* src/unnamed/part_000 (Peterson's algorithm)
    flag, turn,
    pt_running,                                 \* the flag `running`
    iterations,                                 \* process_thread's local
    overtaken,                                  \* history: times the other process
                                                \* entered while this one was waiting
    ptPc,                                       \* position of each process
    \* src/synchronization/dining_philosophers.c
    states, meals_eaten,
    dp_running,                                 \* the flag `running`
    dpPc,                                       \* position of each philosopher
    \* src/synchronization/readers_writers.c
    readers_count, writer_active, writers_waiting,  \* rw_monitor_t
    rwPc,                                       \* position of each reader / writer
    \* src/threads/thread_pool.c
    task_queue, queue_size, queue_front, queue_rear, shutdown, active_threads,
    task,                                       \* worker_thread's local
    priority,                                   \* add_task's parameter, call in progress
    tpPc,                                       \* position of each worker
    tpMain,                                     \* position of main
    submitted,                                  \* tasks main has handed to add_task
    accepted,                                   \* history: tasks add_task returned 0 for
    executed                                    \* history: tasks executed, in order

tmVars == <<current_thread, current_priority, operations, errors, tm_running, tmPc>>
ptVars == <<flag, turn, pt_running, iterations, ptPc, overtaken>>
dpVars == <<states, meals_eaten, dp_running, dpPc>>
rwVars == <<readers_count, writer_active, writers_waiting, rwPc>>
tpVars == <<task_queue, queue_size, queue_front, queue_rear, shutdown, active_threads, task,
            priority, tpPc, tpMain, submitted, accepted, executed>>

\* ------------------------------------------ further programs and variants
VARIABLES
    \* src/synchronization/monitor.c, the simple variant (lines 1-191)
    simple_buffer, simple_count, simple_in, simple_out,     \* monitor_t
    simple_mutex,                               \* holder of monitor.mutex
    svPc, svRet, svTimeout, svItem,             \* per call: position and locals
                                                \* (svItem: the value to insert, or
                                                \* whether the pointer is NULL)
    svOps,                                      \* calls of each thread that returned
    svLast                                      \* the latest return: thread, value

VARIABLES
    \* src/synchronization/monitor.c, extended variant: the performance metrics
    \* on their own (the code behind the wait loop, run under the mutex)
    stat_count, stat_insertions, stat_removals, \* count, total_insertions, total_removals
    stat_avg,                                   \* avg_wait_time, as a fraction num / den
                                                \* of milliseconds
    stat_waited                                 \* history: the time each successful
                                                \* operation spent in its call, in ms

VARIABLES
    \* src/unnamed/part_003 (and part_002, part_004 from line 239): the dining
    \* monitor whose philosophers loop for ever
    state,                                      \* dining_monitor_t: state[]
    fkPc                                        \* position of each philosopher

VARIABLES
    \* src/unnamed/part_001: readers-writers with readers preference
    rp_readers_count, rp_writers_count, waiting_writers, shared_data,
    rp_running,                                 \* the flag `running`
    rp_operations,                              \* reader_thread's / writer_thread's local
    rpPc                                        \* position of each reader / writer

VARIABLES
    \* src/threads/thread_pool.c used by several submitting threads
    cl_task_queue, cl_queue_size, cl_queue_front, cl_queue_rear, cl_shutdown,
    cl_destroyed,                               \* queue_mutex and the conditions are destroyed
    clPc,                                       \* position of each submitting thread
    clRet,                                      \* what its last add_task returned
    clLeft,                                     \* calls it has still to make
    cwPc,                                       \* position of each worker
    clMain                                      \* position of the thread that shuts down

svVars == <<simple_buffer, simple_count, simple_in, simple_out, simple_mutex, svPc, svRet,
            svTimeout, svItem, svOps, svLast>>

\* The state of the programs declared above.
fkVars == <<state, fkPc>>
clVars == <<cl_task_queue, cl_queue_size, cl_queue_front, cl_queue_rear, cl_shutdown,
            cl_destroyed, clPc, clRet, clLeft, cwPc, clMain>>
rpVars == <<rp_readers_count, rp_writers_count, waiting_writers, shared_data, rp_running,
            rp_operations, rpPc>>
statVars == <<stat_count, stat_insertions, stat_removals, stat_avg, stat_waited>>

laterVars == <<svVars, statVars, fkVars, rpVars, clVars>>

vars == <<monitorVars, tmVars, ptVars, dpVars, rwVars, tpVars, laterVars>>

\* A step of the monitor program: the process is alive, and no other program
\* moves.
MonitorProcess == ~crashed /\ UNCHANGED <<tmVars, ptVars, dpVars, rwVars, tpVars, laterVars>>
\* Such a step that does not get to check_deadlock's printf.
MonitorRuns == MonitorProcess /\ UNCHANGED warned

\* ------------------------------------------------------------------ clock
ClockSec == (now * 500) \div 1000
ClockNsec == ((now * 500) % 1000) * 1000000

\* Nothing printed yet.
NoReport == [ins |-> 0, rem |-> 0, tmo |-> 0]

\* struct timespec ts before any clock_gettime wrote it.
NoTs == [tv_sec |-> 0, tv_nsec |-> 0]

\* clock_gettime(&ts); ts.tv_sec += timeout_ms / 1000;
\* ts.tv_nsec += (timeout_ms % 1000) * 1000000;   (no carry into tv_sec)
Deadline(tmo) ==
    [tv_sec |-> ClockSec + (tmo \div 1000),
     tv_nsec |-> ClockNsec + (tmo % 1000) * 1000000]

\* pthread_cond_timedwait fails with EINVAL unless 0 <= tv_nsec < 10^9.
TsValid(t) == t.tv_nsec >= 0 /\ t.tv_nsec < 1000000000

\* The clock has reached the absolute time t.
Expired(t) ==
    \/ ClockSec > t.tv_sec
    \/ ClockSec = t.tv_sec /\ ClockNsec >= t.tv_nsec

\* ------------------------------------------------------------ the monitor
\* The loop conditions of monitor_insert / monitor_remove (without ret == 0).
BufferFullOffByOne == count > BUFFER_SIZE
BufferFull == count = BUFFER_SIZE
BufferEmptyOrLast == count <= 1
BufferEmpty == count = 0
MustWait(t) == IF t \in Inserters THEN BufferFull ELSE BufferEmpty

\* Threads blocked on the condition variable t signals after its operation.
BlockedPeers(t) ==
    {u \in (IF t \in Inserters THEN Removers ELSE Inserters) : pc[u] = "wait"}

\* if (!monitor.initialized) at the head of monitor_insert / monitor_remove.
UninitializedIgnored == FALSE
Uninitialized == ~initialized

\* pthread_mutex_destroy has run on monitor.mutex.
MutexDestroyed == pcMain \in {"d_flag", "done", "again"}

\* A record of the waiter list as add_waiting_thread fills it in; freed:
\* monitor_destroy has freed it.  is_waiting is never written again.
WaiterRecord(t) == [id |-> t, last_active |-> ClockSec, is_waiting |-> TRUE, freed |-> FALSE]

\* check_deadlock on the list l: the threads it prints a warning about.
check_deadlock(l) ==
    {l[j].id : j \in {k \in 1..Len(l) :
                         l[k].is_waiting /\ (ClockSec - l[k].last_active) > deadlock_threshold}}

RECURSIVE FirstOf(_, _, _)
\* Index of the first record of list l, from i on, whose id is t; 0 if none.
FirstOf(l, t, i) ==
    IF i > Len(l) THEN 0
    ELSE IF l[i].id = t THEN i
    ELSE FirstOf(l, t, i + 1)

RemoveAt(l, i) == [j \in 1..(Len(l) - 1) |-> IF j < i THEN l[j] ELSE l[j + 1]]

\* The records remove_waiting_thread reads: up to and including t's own.
Traversed(l, t) ==
    LET i == FirstOf(l, t, 1) IN
    IF i = 0 THEN {l[j] : j \in 1..Len(l)} ELSE {l[j] : j \in 1..i}

\* ------------------------------------------- the other programs: constants
\* test_monitor.c: the test threads and their priorities, (i + 1) * 10.
TmThreads == {"t1", "t2", "t3"}
Priority(t) == IF t = "t1" THEN 10 ELSE IF t = "t2" THEN 20 ELSE 30
\* Operations per test thread: 5 in the source (test_monitor.c:28).
TEST_MAX_OPERATIONS == 2

\* part_000: the two processes; iterations each: 5 in the source (line 29).
Procs == {0, 1}
MAX_ITERATIONS == 2

\* dining_philosophers.c: 5 philosophers, 3 meals in the source (lines 26, 29).
NUM_PHILOSOPHERS == 4
MAX_MEALS == 2
Philosophers == 0..(NUM_PHILOSOPHERS - 1)

\* readers_writers.c: 5 readers, 2 writers in the source (lines 158-159).
Readers == {"rd1", "rd2"}
Writers == {"wr1", "wr2"}

\* thread_pool.c: 4 workers, 1000 slots, 10 tasks in the source (lines 22, 24,
\* 295).
MAX_THREADS == 2
TASK_QUEUE_SIZE == 2
NumTasks == 3
Workers == 1..MAX_THREADS
\* The priority arguments of thread_pool_submit_priority (0: thread_pool_submit).
Priorities == {0, 1, 2}
\* A task is known by the number main passes as its argument.
NoTask == [arg |-> 0, priority |-> 0]

\* monitor.c, simple variant: one producer and two consumers (one of each in
\* the source, lines 181-182); NullItem: monitor_remove was passed item == NULL.
SvInserters == {"producer"}
SvRemovers == {"consumer1", "consumer2"}
SvThreads == SvInserters \cup SvRemovers
NullItem == -1

\* part_001: 3 readers, 2 writers, 3 operations each in the source (lines
\* 26-30).
RpReaders == {"reader0", "reader1"}
RpWriters == {"writer0", "writer1"}
MAX_OPERATIONS == 2

\* thread_pool.c: the threads that call thread_pool_submit, and the calls
\* each makes (any number in the source, which exports the function).
NumClients == 3
Clients == 1..NumClients
ClCalls == 2
NoReturn == 1

\* ------------------------------------- the other programs: initial states
\* test_monitor_init, and the threads main creates.
TmInit ==
    /\ current_thread = NoThread
    /\ current_priority = 0
    /\ operations = [t \in TmThreads |-> 0]
    /\ errors = [t \in TmThreads |-> 0]
    /\ tm_running = TRUE
    /\ tmPc = [t \in TmThreads |-> "start"]

\* part_000: the static initialisers.
PtInit ==
    /\ flag = [p \in Procs |-> 0]
    /\ turn = 0
    /\ pt_running = TRUE
    /\ iterations = [p \in Procs |-> 0]
    /\ ptPc = [p \in Procs |-> "loop"]
    /\ overtaken = [p \in Procs |-> 0]

\* dining_philosophers.c: main's initialisation loop.
DpInit ==
    /\ states = [p \in Philosophers |-> "THINKING"]
    /\ meals_eaten = [p \in Philosophers |-> 0]
    /\ dp_running = TRUE
    /\ dpPc = [p \in Philosophers |-> "loop"]

\* readers_writers.c: rw_monitor_init.
RwInit ==
    /\ readers_count = 0
    /\ writer_active = FALSE
    /\ writers_waiting = 0
    /\ rwPc = [t \in Readers \cup Writers |-> "idle"]

\* thread_pool.c: the pool when thread_pool_init has returned 0.
TpInit ==
    /\ task_queue = [i \in 0..(TASK_QUEUE_SIZE - 1) |-> NoTask]
    /\ queue_size = 0 /\ queue_front = 0 /\ queue_rear = 0
    /\ shutdown = 0
    /\ active_threads = MAX_THREADS
    /\ task = [w \in Workers |-> NoTask]
    /\ priority = 0
    /\ tpPc = [w \in Workers |-> "lock"]
    /\ tpMain = "submit"
    /\ submitted = 0
    /\ accepted = {}
    /\ executed = <<>>

\* monitor.c, simple variant: the zero-initialised global (main calls
\* monitor_init, which assigns the same values, before it creates a thread).
SvInit ==
    /\ simple_buffer = [i \in 0..(BUFFER_SIZE - 1) |-> 0]
    /\ simple_count = 0 /\ simple_in = 0 /\ simple_out = 0
    /\ simple_mutex = NoThread
    /\ svPc = [t \in SvThreads |-> "idle"]
    /\ svRet = [t \in SvThreads |-> 0]
    /\ svTimeout = [t \in SvThreads |-> 0]
    /\ svItem = [t \in SvThreads |-> 0]
    /\ svOps = [t \in SvThreads |-> 0]
    /\ svLast = [thread |-> NoThread, code |-> 0]

\* monitor.c, extended variant: the metrics as monitor_init leaves them.
StatInit ==
    /\ stat_count = 0
    /\ stat_insertions = 0 /\ stat_removals = 0
    /\ stat_avg = [num |-> 0, den |-> 1]
    /\ stat_waited = <<>>

\* part_003: monitor_init, and the threads main creates.
FkInit ==
    /\ state = [p \in Philosophers |-> "THINKING"]
    /\ fkPc = [p \in Philosophers |-> "think"]

\* part_001: the static initialisers (operations = 0 in each thread).
RpInit ==
    /\ rp_readers_count = 0 /\ rp_writers_count = 0 /\ waiting_writers = 0
    /\ shared_data = 0
    /\ rp_running = TRUE
    /\ rp_operations = [t \in RpReaders \cup RpWriters |-> 0]
    /\ rpPc = [t \in RpReaders \cup RpWriters |-> "loop"]

\* thread_pool.c with submitting threads: the state thread_pool_init leaves.
ClInit ==
    /\ cl_task_queue = [i \in 0..(TASK_QUEUE_SIZE - 1) |-> 0]
    /\ cl_queue_size = 0 /\ cl_queue_front = 0 /\ cl_queue_rear = 0
    /\ cl_shutdown = 0
    /\ cl_destroyed = FALSE
    /\ clPc = [c \in Clients |-> "idle"]
    /\ clRet = [c \in Clients |-> NoReturn]
    /\ clLeft = [c \in Clients |-> ClCalls]
    /\ cwPc = [w \in Workers |-> "lock"]
    /\ clMain = "run"

\* ------------------------------------------------------------------- Init
\* The zero-initialised global before main runs.
Init ==
    /\ buffer = [i \in 0..(BUFFER_SIZE - 1) |-> 0]
    /\ count = 0 /\ in = 0 /\ out = 0
    /\ initialized = FALSE
    /\ waiting_threads = <<>> /\ waiting_count = 0
    /\ total_insertions = 0 /\ total_removals = 0 /\ total_timeouts = 0
    /\ avg_wait_time = "0.0"
    /\ mutexOwner = NoThread
    /\ pc = [t \in Threads |-> "idle"]
    /\ ret = [t \in Threads |-> 0]
    /\ timeout_ms = [t \in Threads |-> 0]
    /\ item = [t \in Threads |-> 0]
    /\ ts = [t \in Threads |-> NoTs]
    /\ lastReturn = [thread |-> NoThread, code |-> MONITOR_SUCCESS, ret |-> 0]
    /\ opsDone = [t \in Threads |-> 0]
    /\ pcMain = "init"
    /\ reported = NoReport
    /\ now = 0
    /\ crashed = FALSE
    /\ warned = {}
    /\ inserted = <<>> /\ removed = <<>>
    /\ steady = [t \in Threads |-> FALSE]
    /\ quiesced = FALSE
    /\ TmInit /\ PtInit /\ DpInit /\ RwInit /\ TpInit
    /\ SvInit /\ StatInit /\ FkInit /\ RpInit /\ ClInit

\* ------------------------------------------------------------ main thread
\* monitor_init: the assignments, with ok whether the pthread_*_init calls all
\* succeed.  The buffer's cells are not cleared.  The value returned is kept in
\* lastReturn (on failure MONITOR_ERROR_MUTEX_INIT, or MONITOR_ERROR_COND_INIT
\* when it is a condition variable that fails: the state left is the same).
monitor_init_keeps_stats(ok) ==
    /\ count' = 0 /\ in' = 0 /\ out' = 0
    /\ waiting_threads' = <<>> /\ waiting_count' = 0
    /\ initialized' = ok
    /\ lastReturn' = [thread |-> MainThread,
                      code |-> IF ok THEN MONITOR_SUCCESS ELSE MONITOR_ERROR_MUTEX_INIT,
                      ret |-> 0]
    /\ UNCHANGED <<total_insertions, total_removals, total_timeouts, avg_wait_time>>
monitor_init(ok) ==
    /\ count' = 0 /\ in' = 0 /\ out' = 0
    /\ waiting_threads' = <<>> /\ waiting_count' = 0
    /\ total_insertions' = 0 /\ total_removals' = 0 /\ total_timeouts' = 0
    /\ avg_wait_time' = "0.0"
    /\ initialized' = ok
    /\ lastReturn' = [thread |-> MainThread,
                      code |-> IF ok THEN MONITOR_SUCCESS ELSE MONITOR_ERROR_MUTEX_INIT,
                      ret |-> 0]

\* main calls monitor_init at start-up.
MonitorInit(ok) ==
    /\ MonitorRuns
    /\ pcMain = "init"
    /\ monitor_init(ok)
    /\ pcMain' = "run"
    /\ UNCHANGED <<buffer, pc, ret, timeout_ms, item, ts, opsDone, histVars, mutexOwner,
                   reported, now, crashed>>

\* monitor_init called again on the monitor an earlier monitor_destroy left
\* behind, once no call is in flight any more.
MonitorInitAgain(ok) ==
    /\ MonitorRuns
    /\ pcMain \in {"done", "again"}
    /\ \A t \in Threads : pc[t] = "idle"
    /\ monitor_init(ok)
    /\ pcMain' = "run"
    /\ UNCHANGED <<buffer, pc, ret, timeout_ms, item, ts, opsDone, histVars, mutexOwner,
                   reported, now, crashed>>

\* print_monitor_stats reads the counters one printf after the other, without
\* the mutex: total_insertions ("p_ins"), total_removals ("p_rem"),
\* total_timeouts ("p_tmo").
PrintedFieldSwapped(stage) ==
    IF stage = "p_ins" THEN total_removals
    ELSE IF stage = "p_rem" THEN total_insertions
    ELSE total_timeouts
PrintedField(stage) ==
    IF stage = "p_ins" THEN total_insertions
    ELSE IF stage = "p_rem" THEN total_removals
    ELSE total_timeouts

\* Entry of monitor_destroy: return at once (to pcMain = back) if the monitor
\* is not initialized, else start print_monitor_stats: its first printf.
DestroyEntry(back) ==
    IF Uninitialized
      THEN /\ pcMain' = back
           /\ UNCHANGED <<reported, quiesced>>
      ELSE /\ pcMain' = "p_rem"
           /\ reported' = [reported EXCEPT !.ins = PrintedField("p_ins")]
           /\ quiesced' = \A t \in Threads : pc[t] = "idle"

\* main calls monitor_destroy.
DestroyBegin ==
    /\ MonitorRuns
    /\ pcMain = "run"
    /\ DestroyEntry("returned")
    /\ UNCHANGED <<monVars, listVars, thrVars, inserted, removed, steady, initialized,
                   mutexOwner, now, crashed>>

\* monitor_destroy called a second time, after the first call has returned.
DestroyAgain ==
    /\ MonitorRuns
    /\ pcMain = "done"
    /\ DestroyEntry("again")
    /\ UNCHANGED <<monVars, listVars, thrVars, inserted, removed, steady, initialized,
                   mutexOwner, now, crashed>>

\* print_monitor_stats: the next printf.
PrintStats ==
    /\ MonitorRuns
    /\ pcMain \in {"p_rem", "p_tmo"}
    /\ reported' = IF pcMain = "p_rem"
                     THEN [reported EXCEPT !.rem = PrintedField("p_rem")]
                     ELSE [reported EXCEPT !.tmo = PrintedField("p_tmo")]
    /\ pcMain' = IF pcMain = "p_rem" THEN "p_tmo" ELSE "d_free"
    /\ UNCHANGED <<monVars, listVars, thrVars, histVars, initialized, mutexOwner, now, crashed>>

\* monitor_destroy: free every record of the list (waiting_threads and
\* waiting_count are left as they are, so the list now refers to freed
\* records), then pthread_mutex_destroy and pthread_cond_destroy (twice).  No
\* waiter is signalled.  A mutex that is held stays usable by its holder.
DestroyFree ==
    /\ MonitorRuns
    /\ pcMain = "d_free"
    /\ waiting_threads' = [j \in 1..Len(waiting_threads) |->
                              [waiting_threads[j] EXCEPT !.freed = TRUE]]
    /\ pcMain' = "d_flag"
    /\ UNCHANGED <<monVars, waiting_count, thrVars, histVars, initialized, mutexOwner,
                   reported, now, crashed>>

\* monitor_destroy: monitor.initialized = false; return.
DestroyFlagKept ==
    /\ MonitorRuns
    /\ pcMain = "d_flag"
    /\ pcMain' = "done"
    /\ UNCHANGED <<monVars, listVars, thrVars, histVars, initialized, mutexOwner, reported,
                   now, crashed>>
DestroyFlagDrains ==
    /\ MonitorRuns
    /\ pcMain = "d_flag"
    /\ initialized' = FALSE
    /\ count' = 0 /\ in' = 0 /\ out' = 0
    /\ pcMain' = "done"
    /\ UNCHANGED <<buffer, total_insertions, total_removals, total_timeouts, avg_wait_time,
                   listVars, thrVars, histVars, mutexOwner, reported, now, crashed>>
DestroyFlag ==
    /\ MonitorRuns
    /\ pcMain = "d_flag"
    /\ initialized' = FALSE
    /\ pcMain' = "done"
    /\ UNCHANGED <<monVars, listVars, thrVars, histVars, mutexOwner, reported, now, crashed>>

\* ---------------------------------------------------------------- threads
\* The call of t returns code: its locals are gone, one more call is done.
Return(t, code) ==
    /\ pc' = [pc EXCEPT ![t] = "idle"]
    /\ ret' = [ret EXCEPT ![t] = 0]
    /\ timeout_ms' = [timeout_ms EXCEPT ![t] = 0]
    /\ item' = [item EXCEPT ![t] = 0]
    /\ ts' = [ts EXCEPT ![t] = NoTs]
    /\ steady' = [steady EXCEPT ![t] = FALSE]
    /\ opsDone' = [opsDone EXCEPT ![t] = @ + 1]
    /\ lastReturn' = [thread |-> t, code |-> code, ret |-> 0]

\* Entry of monitor_insert(item, tmo) / monitor_remove(&item, tmo): the
\* initialized test, the NULL test (isNull: the remover passed item == NULL),
\* and the locals.
Call(t, tmo, isNull) ==
    /\ MonitorRuns
    /\ pcMain # "init"
    /\ pc[t] = "idle"
    /\ opsDone[t] < MaxOps
    /\ IF Uninitialized
         THEN Return(t, MONITOR_ERROR_MUTEX_INIT)
         ELSE IF isNull
           THEN Return(t, MONITOR_ERROR_NULL_POINTER)
           ELSE /\ pc' = [pc EXCEPT ![t] = "lock"]
                /\ ret' = [ret EXCEPT ![t] = 0]
                /\ timeout_ms' = [timeout_ms EXCEPT ![t] = tmo]
                /\ item' = [item EXCEPT ![t] =
                               IF t \in Inserters THEN ItemStream(t)[opsDone[t] + 1] ELSE 0]
                /\ UNCHANGED <<ts, steady, opsDone, lastReturn>>
    /\ quiesced' = FALSE
    /\ UNCHANGED <<monVars, listVars, inserted, removed, initialized, mutexOwner, pcMain,
                   reported, now, crashed>>

\* The while loop, evaluated by t holding the mutex with wait result r: leave
\* the loop ("post"), or run check_deadlock and start the (timed) wait, which
\* gives up the mutex ("wait").  A timed wait whose ts is not a valid time
\* returns EINVAL at once, and the loop ends on ret != 0.
LoopStep(t, r) ==
    IF MustWait(t) /\ r = 0
      THEN IF timeout_ms[t] > 0
             THEN /\ ts' = [ts EXCEPT ![t] = Deadline(timeout_ms[t])]
                  /\ IF TsValid(Deadline(timeout_ms[t]))
                       THEN /\ pc' = [pc EXCEPT ![t] = "wait"]
                            /\ mutexOwner' = NoThread
                            /\ ret' = [ret EXCEPT ![t] = 0]
                       ELSE /\ pc' = [pc EXCEPT ![t] = "post"]
                            /\ mutexOwner' = t
                            /\ ret' = [ret EXCEPT ![t] = EINVAL]
             ELSE /\ pc' = [pc EXCEPT ![t] = "wait"]
                  /\ mutexOwner' = NoThread
                  /\ ret' = [ret EXCEPT ![t] = 0]
                  /\ UNCHANGED ts
      ELSE /\ pc' = [pc EXCEPT ![t] = "post"]
           /\ mutexOwner' = t
           /\ ret' = [ret EXCEPT ![t] = r]
           /\ UNCHANGED ts

\* pthread_mutex_lock succeeds; add_waiting_thread(); the while loop.
Enter(t) ==
    /\ MonitorProcess
    /\ pc[t] = "lock"
    /\ mutexOwner = NoThread
    /\ waiting_threads' = <<WaiterRecord(t)>> \o waiting_threads
    /\ waiting_count' = waiting_count + 1
    /\ warned' = IF MustWait(t) /\ ret[t] = 0
                   THEN check_deadlock(<<WaiterRecord(t)>> \o waiting_threads) ELSE warned
    /\ steady' = [steady EXCEPT ![t] = MustWait(t)]
    /\ LoopStep(t, ret[t])
    /\ UNCHANGED <<monVars, timeout_ms, item, opsDone, lastReturn, inserted, removed, quiesced,
                   initialized, pcMain, reported, now, crashed>>

\* pthread_mutex_lock on the destroyed mutex fails: MONITOR_ERROR_MUTEX_LOCK.
LockFails(t) ==
    /\ MonitorRuns
    /\ pc[t] = "lock"
    /\ MutexDestroyed
    /\ mutexOwner = NoThread
    /\ Return(t, MONITOR_ERROR_MUTEX_LOCK)
    /\ UNCHANGED <<monVars, listVars, inserted, removed, quiesced,
                   initialized, mutexOwner, pcMain, reported, now, crashed>>

\* The woken thread takes the mutex again; its wait returns ret into the loop.
Reacquire(t) ==
    /\ MonitorProcess
    /\ pc[t] = "woken"
    /\ mutexOwner = NoThread
    /\ warned' = IF MustWait(t) /\ ret[t] = 0 THEN check_deadlock(waiting_threads) ELSE warned
    /\ LoopStep(t, ret[t])
    /\ UNCHANGED <<monVars, listVars, timeout_ms, item, opsDone, lastReturn, histVars,
                   initialized, pcMain, reported, now, crashed>>

\* check_deadlock, run by t before it waits, reads a record monitor_destroy has
\* freed: the process may die.
LoopCrash(t) ==
    /\ MonitorRuns
    /\ pc[t] \in {"lock", "woken"}
    /\ mutexOwner = NoThread
    /\ MustWait(t) /\ ret[t] = 0
    /\ \E j \in 1..Len(waiting_threads) : waiting_threads[j].freed
    /\ crashed' = TRUE
    /\ UNCHANGED <<monVars, listVars, thrVars, histVars, initialized, mutexOwner, pcMain, reported, now>>

\* The wait ends although nobody signalled: a spurious wake-up, result 0.
SpuriousWake(t) ==
    /\ MonitorRuns
    /\ pc[t] = "wait"
    /\ pc' = [pc EXCEPT ![t] = "woken"]
    /\ UNCHANGED <<monVars, listVars, ret, timeout_ms, item, ts, opsDone, lastReturn, histVars,
                   initialized, mutexOwner, pcMain, reported, now, crashed>>

\* The deadline of a timed wait is reached: the wait will return ETIMEDOUT.
Timeout(t) ==
    /\ MonitorRuns
    /\ pc[t] = "wait"
    /\ timeout_ms[t] > 0
    /\ Expired(ts[t])
    /\ pc' = [pc EXCEPT ![t] = "woken"]
    /\ ret' = [ret EXCEPT ![t] = ETIMEDOUT]
    /\ UNCHANGED <<monVars, listVars, timeout_ms, item, ts, opsDone, lastReturn, histVars,
                   initialized, mutexOwner, pcMain, reported, now, crashed>>

\* remove_waiting_thread(): unlink and free the first record whose id is t.
DeregisteredNothing(l, t) == l
Deregistered(l, t) ==
    IF FirstOf(l, t, 1) = 0 THEN l ELSE RemoveAt(l, FirstOf(l, t, 1))

\* return (ret == 0) ? MONITOR_SUCCESS : MONITOR_ERROR_TIMEOUT;
ReturnCodeAlwaysTimeout(r) == MONITOR_ERROR_TIMEOUT
ReturnCodeAlwaysSuccess(r) == MONITOR_SUCCESS
ReturnCodeOnWarning(r) == IF r = 0 /\ warned = {} THEN MONITOR_SUCCESS ELSE MONITOR_ERROR_TIMEOUT
ReturnCode(r) == IF r = 0 THEN MONITOR_SUCCESS ELSE MONITOR_ERROR_TIMEOUT

NextInStuck == in
NextIn == (in + 1) % BUFFER_SIZE
NextOut == (out + 1) % BUFFER_SIZE

\* pthread_cond_signal by t after a successful operation: one blocked peer is
\* woken if there is any (NoThread: nobody to wake, or no signal sent).
WakeChoicesNoSignal(t) == {NoThread}
WakeChoicesOwnSide(t) ==
    LET own == {u \in (IF t \in Inserters THEN Inserters ELSE Removers) : pc[u] = "wait"}
    IN  IF ret[t] = 0 /\ own # {} THEN own ELSE {NoThread}
WakeChoicesAlways(t) == IF BlockedPeers(t) # {} THEN BlockedPeers(t) ELSE {NoThread}
WakeChoices(t) ==
    IF ret[t] = 0 /\ BlockedPeers(t) # {} THEN BlockedPeers(t) ELSE {NoThread}

\* t returns code and gives up the mutex; w (if a thread) leaves its wait
\* because t signalled it.
ReturnAndWake(t, w, code) ==
    /\ pc' = [u \in Threads |-> IF u = t THEN "idle" ELSE IF u = w THEN "woken" ELSE pc[u]]
    /\ ret' = [ret EXCEPT ![t] = 0]
    /\ timeout_ms' = [timeout_ms EXCEPT ![t] = 0]
    /\ item' = [item EXCEPT ![t] = 0]
    /\ ts' = [ts EXCEPT ![t] = NoTs]
    /\ opsDone' = [opsDone EXCEPT ![t] = @ + 1]
    /\ lastReturn' = [thread |-> t, code |-> code, ret |-> ret[t]]
    /\ mutexOwner' = NoThread

\* monitor_insert after the loop: remove_waiting_thread(); store the item,
\* fold the wait into avg_wait_time and signal not_empty if ret == 0, else
\* count a timeout; unlock; return.
InsertFinish(t) ==
    /\ MonitorRuns
    /\ t \in Inserters
    /\ pc[t] = "post"
    /\ mutexOwner = t
    /\ waiting_threads' = Deregistered(waiting_threads, t)
    /\ waiting_count' = IF FirstOf(waiting_threads, t, 1) = 0
                          THEN waiting_count ELSE waiting_count - 1
    /\ IF ret[t] = 0
         THEN /\ buffer' = [buffer EXCEPT ![in] = item[t]]
              /\ in' = NextIn
              /\ count' = count + 1
              /\ total_insertions' = total_insertions + 1
              /\ avg_wait_time' = "measured"
              /\ inserted' = Append(inserted, item[t])
              /\ steady' = [u \in Threads |-> IF u \in Removers \/ u = t THEN FALSE ELSE steady[u]]
              /\ UNCHANGED total_timeouts
         ELSE /\ total_timeouts' = total_timeouts + 1
              /\ steady' = [steady EXCEPT ![t] = FALSE]
              /\ UNCHANGED <<buffer, in, count, total_insertions, avg_wait_time, inserted>>
    /\ \E w \in WakeChoices(t) : ReturnAndWake(t, w, ReturnCode(ret[t]))
    /\ UNCHANGED <<out, total_removals, removed, quiesced, initialized, pcMain, reported, now, crashed>>

\* monitor_remove after the loop: remove_waiting_thread(); take the item at out
\* and signal not_full if ret == 0, else count a timeout; unlock; return.
RemoveFinish(t) ==
    /\ MonitorRuns
    /\ t \in Removers
    /\ pc[t] = "post"
    /\ mutexOwner = t
    /\ waiting_threads' = Deregistered(waiting_threads, t)
    /\ waiting_count' = IF FirstOf(waiting_threads, t, 1) = 0
                          THEN waiting_count ELSE waiting_count - 1
    /\ IF ret[t] = 0
         THEN /\ out' = NextOut
              /\ count' = count - 1
              /\ total_removals' = total_removals + 1
              /\ avg_wait_time' = "measured"
              /\ removed' = Append(removed, buffer[out])
              /\ steady' = [u \in Threads |-> IF u \in Inserters \/ u = t THEN FALSE ELSE steady[u]]
              /\ UNCHANGED total_timeouts
         ELSE /\ total_timeouts' = total_timeouts + 1
              /\ steady' = [steady EXCEPT ![t] = FALSE]
              /\ UNCHANGED <<out, count, total_removals, avg_wait_time, removed>>
    /\ \E w \in WakeChoices(t) : ReturnAndWake(t, w, ReturnCode(ret[t]))
    /\ UNCHANGED <<buffer, in, total_insertions, inserted, quiesced, initialized, pcMain, reported,
                   now, crashed>>

\* remove_waiting_thread reads, or frees again, a record monitor_destroy has
\* freed: the process may die.
FinishCrash(t) ==
    /\ MonitorRuns
    /\ pc[t] = "post"
    /\ mutexOwner = t
    /\ \E r \in Traversed(waiting_threads, t) : r.freed
    /\ crashed' = TRUE
    /\ UNCHANGED <<monVars, listVars, thrVars, histVars, initialized, mutexOwner, pcMain, reported, now>>

\* Half a second passes.
Tick ==
    /\ MonitorRuns
    /\ now < MaxNow
    /\ now' = now + 1
    /\ UNCHANGED <<monVars, listVars, thrVars, histVars, initialized, mutexOwner, pcMain, reported, crashed>>

\* Two seconds pass at once (the long waits the watchdog looks for).
Sleep ==
    /\ MonitorRuns
    /\ now + 4 <= 4 * MaxNow
    /\ now' = now + 4
    /\ UNCHANGED <<monVars, listVars, thrVars, histVars, initialized, mutexOwner, pcMain, reported, crashed>>

\* ------------------------------------------------------------------- Next
\* The steps of a call that holds, or takes, the mutex.
MonitorStep(t) ==
    \/ Enter(t)
    \/ Reacquire(t)
    \/ InsertFinish(t)
    \/ RemoveFinish(t)

\* What a call may meet once monitor_destroy has run under it.
DestroyedStep(t) ==
    \/ LockFails(t)
    \/ LoopCrash(t)
    \/ FinishCrash(t)

\* The threads of the full model: two producers and one consumer beside main.
Callers == {"i1", "i2", "r1"}

Next ==
    \/ \E ok \in BOOLEAN : MonitorInit(ok)
    \/ DestroyBegin
    \/ PrintStats
    \/ DestroyFree
    \/ DestroyFlag
    \/ \E t \in Callers \cap Inserters : Call(t, 0, FALSE)
    \/ \E t \in Callers \cap Removers, isNull \in BOOLEAN : Call(t, 0, isNull)
    \/ \E t \in Callers : MonitorStep(t)
    \/ \E t \in Callers : DestroyedStep(t)
    \/ \E t \in Callers : SpuriousWake(t)

\* main, calls without a deadline, monitor_destroy at any moment.  (Timed
\* calls under monitor_destroy are in SpecLife.)
Spec == Init /\ [][Next]_vars

\* Two producers and two consumers on a monitor that is never destroyed.
\* The timeout_ms each thread passes: the first producer and the first
\* consumer call with or without a deadline, the second ones without.
CoreTimeouts(t) == IF t \in {"i1", "r1"} THEN TimeoutChoices ELSE {0}

NextCore ==
    \/ \E ok \in BOOLEAN : MonitorInit(ok)
    \/ Tick
    \/ \E t \in Threads : \E tmo \in CoreTimeouts(t) : Call(t, tmo, FALSE)
    \/ \E t \in Threads : MonitorStep(t)
    \/ \E t \in Threads : SpuriousWake(t)
    \/ \E t \in Threads : Timeout(t)

SpecCore == Init /\ [][NextCore]_vars

\* The concurrent stress run: every thread makes MaxOps calls with
\* timeout_ms = 0, and the scheduler is fair to every thread (a thread that can
\* take a step again and again, such as locking the mutex, at last takes it).
StressStep(t) == Call(t, 0, FALSE) \/ MonitorStep(t)

NextStress ==
    \/ MonitorInit(TRUE)
    \/ \E t \in Threads : Call(t, 0, FALSE)
    \/ \E t \in Threads : MonitorStep(t)
    \/ \E t \in Threads : SpuriousWake(t)

SpecStress ==
    /\ Init /\ [][NextStress]_vars
    /\ WF_vars(MonitorInit(TRUE))
    /\ \A t \in Threads : SF_vars(StressStep(t))

\* One producer and one consumer whose timed calls carry a deadline the clock
\* of the model never reaches (2.5 s, the clock stops at MaxNow * 0.5 s).
Pair == {"i1", "r1"}
PairTimeouts == {0, 2500}

NextPair ==
    \/ MonitorInit(TRUE)
    \/ Tick
    \/ \E t \in Pair, tmo \in PairTimeouts : Call(t, tmo, FALSE)
    \/ \E t \in Pair : MonitorStep(t)
    \/ \E t \in Pair : SpuriousWake(t)

SpecPair == Init /\ [][NextPair]_vars

\* One producer and two consumers on a clock that runs for seconds, so that
\* check_deadlock finds waits longer than deadlock_threshold.
Watched == {"i1", "r1", "r2"}

NextWatch ==
    \/ MonitorInit(TRUE)
    \/ Sleep
    \/ \E t \in Watched, tmo \in TimeoutChoices : Call(t, tmo, FALSE)
    \/ \E t \in Watched : MonitorStep(t)
    \/ \E t \in Watched : SpuriousWake(t)
    \/ \E t \in Watched : Timeout(t)

SpecWatch == Init /\ [][NextWatch]_vars

\* The whole life of a monitor used by one producer and one consumer: created,
\* used, destroyed (also twice), and created again on the same structure.
NextLife ==
    \/ \E ok \in BOOLEAN : MonitorInit(ok)
    \/ \E ok \in BOOLEAN : MonitorInitAgain(ok)
    \/ DestroyBegin
    \/ PrintStats
    \/ DestroyFree
    \/ DestroyFlag
    \/ DestroyAgain
    \/ Tick
    \/ \E t \in Pair, tmo \in TimeoutChoices : Call(t, tmo, FALSE)
    \/ \E t \in Pair : MonitorStep(t)
    \/ \E t \in Pair : DestroyedStep(t)
    \/ \E t \in Pair : SpuriousWake(t)
    \/ \E t \in Pair : Timeout(t)

SpecLife == Init /\ [][NextLife]_vars

\* ------------------------------------------------------------------ types
TypeOK ==
    /\ count \in 0..BUFFER_SIZE
    /\ in \in 0..(BUFFER_SIZE - 1)
    /\ out \in 0..(BUFFER_SIZE - 1)
    /\ mutexOwner \in Threads \cup {NoThread}
    /\ \A t \in Threads : pc[t] \in {"idle", "lock", "wait", "woken", "post"}
    /\ \A t \in Threads : mutexOwner = t <=> pc[t] = "post"

\* ----------------------------------------------------------------- claims
\* The items in the ring, oldest first.
Pending == [k \in 1..count |-> buffer[(out + k - 1) % BUFFER_SIZE]]

\* C1: in every reachable state 0 <= count <= BUFFER_SIZE, and a call that is
\* about to store (an inserter past its loop with ret = 0) finds the buffer
\* not full, one that is about to take finds it not empty.
C1_CapacityInvariant ==
    /\ count >= 0 /\ count <= BUFFER_SIZE
    /\ \A t \in Inserters : (pc[t] = "post" /\ ret[t] = 0) => count < BUFFER_SIZE
    /\ \A t \in Removers : (pc[t] = "post" /\ ret[t] = 0) => count > 0

\* The buffer is full again while a woken inserter is about to re-test it, and
\* a remover that was woken finds the buffer empty.
C1_Witness ==
    \/ count = BUFFER_SIZE /\ total_removals > 0 /\ \E t \in Inserters : pc[t] = "woken"
    \/ count = 0 /\ total_insertions > 0 /\ \E t \in Removers : pc[t] = "woken"

\* C2: the items returned by successful removes are a prefix of the items
\* stored by successful inserts, both in lock order, and the items still in
\* the ring are exactly the rest, in order.
C2_FifoPrefix ==
    /\ Len(removed) <= Len(inserted)
    /\ \A k \in 1..Len(removed) : removed[k] = inserted[k]
    /\ Pending = SubSeq(inserted, Len(removed) + 1, Len(inserted))

\* Both producers' items went through the ring, which wrapped around.
C2_Witness ==
    /\ Len(removed) > BUFFER_SIZE
    /\ removed = inserted
    /\ \E k \in 1..Len(removed) : removed[k] = ItemStream("i1")[1]
    /\ \E k \in 1..Len(removed) : removed[k] = ItemStream("i2")[1]

\* C3 (as claimed): one inserter and one remover whose timeouts never expire
\* complete all their operations: once both have made their MaxOps calls,
\* MaxOps items were stored and MaxOps items were taken.
C3_PairCompletes ==
    (\A t \in Pair : opsDone[t] = MaxOps) =>
        (total_insertions = MaxOps /\ total_removals = MaxOps)

\* Every call of the stress run has returned.
StressReturned == \A t \in Threads : opsDone[t] = MaxOps /\ pc[t] = "idle"

StressTotals ==
    /\ total_insertions = Cardinality(Inserters) * MaxOps
    /\ total_removals = Cardinality(Removers) * MaxOps
    /\ total_timeouts = 0
    /\ count = 0

\* C4: with timeout_ms = 0 and a fair scheduler every thread of the stress run
\* returns from all its calls, and then the totals are P*K inserts, P*K
\* removes, no timeout, and the buffer is empty.
C4_StressCompletes == <>StressReturned /\ [](StressReturned => StressTotals)

\* The stress run is over: every item went in and came out, in order.
C4_Witness ==
    /\ StressReturned
    /\ Len(removed) = Cardinality(Inserters) * MaxOps
    /\ removed = inserted

\* The step in which the call of t returns from after its loop.
Finishes(t) == pc[t] = "post" /\ pc'[t] = "idle"

\* The step in which t calls monitor_insert / monitor_remove.
Calls(t) == pc[t] = "idle" /\ (pc'[t] # "idle" \/ opsDone'[t] # opsDone[t])

\* C5: a timed monitor_remove for which the buffer was empty from the moment
\* it took the lock until it returns, returns MONITOR_ERROR_TIMEOUT, adds one
\* to total_timeouts and leaves the buffer and the other counters alone.
C5_RemoveTimeout ==
    [][\A t \in Removers :
         (Finishes(t) /\ timeout_ms[t] > 0 /\ steady[t]) =>
            /\ lastReturn'.thread = t
            /\ lastReturn'.code = MONITOR_ERROR_TIMEOUT
            /\ total_timeouts' = total_timeouts + 1
            /\ UNCHANGED <<buffer, count, in, out, total_insertions, total_removals>>]_vars

\* A remover came back with a timeout whose deadline had expired, from a
\* buffer nothing was ever put in.
C5_Witness ==
    /\ lastReturn.thread \in Removers
    /\ lastReturn.code = MONITOR_ERROR_TIMEOUT
    /\ lastReturn.ret = ETIMEDOUT
    /\ total_timeouts = 1
    /\ total_insertions = 0

\* C6 (as claimed): the deadline a timed call hands to the timed wait is a
\* valid time, and the call returns MONITOR_ERROR_TIMEOUT only once the clock
\* has reached that deadline, so never earlier than timeout_ms after the call.
C6_TimeoutNotEarly ==
    [][\A t \in Threads :
         (Finishes(t) /\ timeout_ms[t] > 0 /\ lastReturn'.code = MONITOR_ERROR_TIMEOUT) =>
            (TsValid(ts[t]) /\ Expired(ts[t]))]_vars

\* C7: a monitor_insert whose timed wait ran into its deadline returns
\* MONITOR_ERROR_TIMEOUT, adds one to total_timeouts, leaves the buffer, count,
\* in, out and total_insertions alone and wakes no remover.
C7_InsertTimeout ==
    [][\A t \in Inserters :
         (Finishes(t) /\ ret[t] = ETIMEDOUT) =>
            /\ lastReturn'.thread = t
            /\ lastReturn'.code = MONITOR_ERROR_TIMEOUT
            /\ total_timeouts' = total_timeouts + 1
            /\ UNCHANGED <<buffer, count, in, out, total_insertions, inserted>>
            /\ \A u \in Removers : pc'[u] = pc[u]]_vars

\* An inserter timed out on the full buffer and returned; a remover is blocked
\* on the buffer that was emptied in between, and was not woken.
C7_Witness ==
    /\ lastReturn.thread \in Inserters
    /\ lastReturn.code = MONITOR_ERROR_TIMEOUT
    /\ lastReturn.ret = ETIMEDOUT
    /\ \E u \in Removers : pc[u] = "wait"

\* C8 (as claimed): once monitor_destroy has returned, no thread is blocked in
\* the wait of monitor_insert or monitor_remove: all of them were woken.
C8_NoWaiterAfterClose ==
    pcMain = "done" => \A t \in Threads : pc[t] # "wait"

\* C9: after monitor_destroy has returned the monitor stays closed, and every
\* monitor_insert called from then on returns MONITOR_ERROR_MUTEX_INIT in its
\* first step, without blocking and without storing anything.
C9_InsertAfterClose ==
    /\ [](pcMain = "done" => ~initialized)
    /\ [][pcMain = "done" => pcMain' = "done"]_vars
    /\ [][\A t \in Inserters :
            (pcMain = "done" /\ Calls(t)) =>
               /\ pc'[t] = "idle"
               /\ lastReturn' = [thread |-> t, code |-> MONITOR_ERROR_MUTEX_INIT, ret |-> 0]
               /\ UNCHANGED <<buffer, count, in, total_insertions, inserted>>]_vars

\* A producer whose first item went in was turned away after the close.
C9_Witness ==
    /\ pcMain = "done"
    /\ lastReturn.thread \in Inserters
    /\ lastReturn.code = MONITOR_ERROR_MUTEX_INIT
    /\ opsDone[lastReturn.thread] = MaxOps
    /\ total_insertions > 0

\* C10 (as claimed): a monitor_remove called after monitor_destroy has
\* returned, while the buffer still holds items, is not turned away with an
\* error: it goes on to take the oldest item.
C10_DrainAfterClose ==
    [][\A t \in Removers :
         (pcMain = "done" /\ count > 0 /\ Calls(t)) =>
            (pc'[t] # "idle" \/ lastReturn'.code = MONITOR_ERROR_NULL_POINTER)]_vars

\* The threads that leave their wait in this step.
NewlyWoken == {u \in Threads : pc[u] = "wait" /\ pc'[u] = "woken"}

\* C11: the step in which a call returns MONITOR_SUCCESS wakes exactly one of
\* the threads blocked on the other side (removers for an insert, inserters
\* for a remove) when there is any, and nobody else; none when there is none.
C11_SignalWakesOne ==
    [][\A t \in Threads :
         (Finishes(t) /\ lastReturn'.code = MONITOR_SUCCESS) =>
            LET blocked == {u \in (IF t \in Inserters THEN Removers ELSE Inserters) :
                               pc[u] = "wait"}
            IN  /\ NewlyWoken \subseteq blocked
                /\ Cardinality(NewlyWoken) = IF blocked = {} THEN 0 ELSE 1]_vars

\* Two removers were blocked on the empty buffer when the first item went in:
\* one of them was woken, the other one still waits beside the stored item.
C11_Witness ==
    /\ lastReturn.thread \in Inserters /\ lastReturn.code = MONITOR_SUCCESS
    /\ total_insertions = 1 /\ total_removals = 0 /\ count = 1
    /\ \E u, w \in Removers :
          /\ pc[u] = "woken" /\ ret[u] = 0
          /\ pc[w] = "wait"

\* The calls between add_waiting_thread and remove_waiting_thread.
Registered == {t \in Threads : pc[t] \in {"wait", "woken", "post"}}

\* C12: waiting_count is the number of records in the waiter list, the list
\* holds one record for each call between its registration and its
\* deregistration, and a thread that is not in a call (it has returned, with
\* whatever result) or has not yet taken the lock has no record in the list.
C12_NoWaiterLeak ==
    /\ waiting_count = Len(waiting_threads)
    /\ Len(waiting_threads) = Cardinality(Registered)
    /\ \A t \in Threads : t \in Registered <=> FirstOf(waiting_threads, t, 1) # 0

\* A call came back from a failed wait (EINVAL), after calls that succeeded,
\* while two other calls are still registered.
C12_Witness ==
    /\ lastReturn.ret = EINVAL
    /\ pc[lastReturn.thread] = "idle"
    /\ total_insertions > 0
    /\ waiting_count = 2

\* print_monitor_stats has printed total_insertions and total_removals.
Printed == pcMain \in {"p_tmo", "d_free", "d_flag", "done", "again"}

\* While no thread is inside the critical section, the counters account for
\* the items in the buffer.
CountersMatch == mutexOwner = NoThread => total_insertions - total_removals = count

C14_SnapshotConsistent ==
    Printed => (reported.ins - reported.rem >= 0 /\ reported.ins - reported.rem <= BUFFER_SIZE)

\* The step is taken by a call that holds the mutex, or takes it in the step.
HolderStep == \E t \in Threads : pc'[t] # pc[t] /\ pc[t] \in {"lock", "woken", "post"}

\* C15 (as claimed): at most one thread is inside the critical section, and
\* once monitor_init has run every write of the buffer, count, in, out, the
\* counters, the waiter list (its records included) and the initialized flag
\* is made by a thread that holds the mutex.
C15_MutexProtects ==
    /\ [](Cardinality({t \in Threads : pc[t] = "post"}) <= 1)
    /\ [][(pcMain # "init" /\ ~UNCHANGED <<monVars, listVars, initialized>>) => HolderStep]_vars

\* The step in which a call of monitor_init returns.
InitReturns == pcMain # "run" /\ pcMain' = "run"

\* C16: when monitor_init returns MONITOR_SUCCESS, at start-up or on a monitor
\* that was used and destroyed before, count = in = out = 0, the waiter list
\* is empty with waiting_count = 0, the three counters are 0, avg_wait_time
\* is 0 and initialized is true; when it returns an error, initialized is
\* false.
C16_InitResets ==
    [][InitReturns =>
         /\ lastReturn'.thread = MainThread
         /\ IF lastReturn'.code = MONITOR_SUCCESS
              THEN /\ initialized'
                   /\ count' = 0 /\ in' = 0 /\ out' = 0
                   /\ waiting_threads' = <<>> /\ waiting_count' = 0
                   /\ total_insertions' = 0 /\ total_removals' = 0 /\ total_timeouts' = 0
                   /\ avg_wait_time' = "0.0"
              ELSE ~initialized']_vars

\* monitor_init has just succeeded on a monitor whose earlier life saw an item
\* stored and a call time out, and it is empty and open again.
C16_Witness ==
    /\ pcMain = "run"
    /\ lastReturn = [thread |-> MainThread, code |-> MONITOR_SUCCESS, ret |-> 0]
    /\ Len(inserted) > 0
    /\ reported.tmo > 0
    /\ total_insertions = 0 /\ total_timeouts = 0 /\ avg_wait_time = "0.0"

\* C17: a second monitor_destroy, called after the first has returned,
\* returns at once and changes nothing in the monitor.
C17_DestroyIdempotent ==
    [][(pcMain = "done" /\ pcMain' \notin {"done", "run"}) =>
         /\ pcMain' = "again"
         /\ UNCHANGED <<monVars, listVars, thrVars, histVars, initialized, mutexOwner,
                         reported, now, crashed>>]_vars

\* The second monitor_destroy has returned on a monitor that still holds an
\* item and whose statistics were printed by the first.
C17_Witness ==
    /\ pcMain = "again"
    /\ count > 0
    /\ reported.ins > 0
    /\ ~initialized

\* A step of monitor_destroy (of the call that finds the monitor initialized).
DestroySteps ==
    /\ pcMain \in {"run", "p_rem", "p_tmo", "d_free", "d_flag"}
    /\ pcMain' \in {"p_rem", "p_tmo", "d_free", "d_flag", "done"}
    /\ pcMain' # pcMain

\* C18: no step of monitor_destroy changes the stored items, count, in, out
\* or the insertion, removal and timeout counters.
C18_DestroyKeepsBuffer ==
    [][DestroySteps =>
         UNCHANGED <<buffer, count, in, out,
                     total_insertions, total_removals, total_timeouts>>]_vars

\* monitor_destroy has returned on a full buffer, after a timeout was counted:
\* the items and the counters are still there.
C18_Witness ==
    /\ pcMain = "done"
    /\ count = BUFFER_SIZE
    /\ Pending = inserted
    /\ total_insertions = BUFFER_SIZE
    /\ total_timeouts > 0

\* C19 (as claimed): a call whose wait failed for another reason than the
\* deadline (its result is neither 0 nor ETIMEDOUT) returns a value that is
\* neither MONITOR_SUCCESS nor MONITOR_ERROR_TIMEOUT, counts no timeout and
\* leaves the buffer alone.
C19_WaitErrorDistinct ==
    [][\A t \in Threads :
         (Finishes(t) /\ ret[t] \notin {0, ETIMEDOUT}) =>
            /\ lastReturn'.code \notin {MONITOR_SUCCESS, MONITOR_ERROR_TIMEOUT}
            /\ total_timeouts' = total_timeouts
            /\ UNCHANGED <<buffer, count, in, out>>]_vars

\* The call of t stores its item / takes the oldest item in this step.
Performs(t) ==
    IF t \in Inserters
      THEN /\ inserted' = Append(inserted, item[t])
           /\ total_insertions' = total_insertions + 1
           /\ count' = count + 1
      ELSE /\ removed' = Append(removed, buffer[out])
           /\ total_removals' = total_removals + 1
           /\ count' = count - 1

\* C20: a call with timeout_ms = 0 that the monitor accepted (it got past the
\* initialized and NULL tests) never has its wait end with a non-zero result,
\* and the step in which it returns is the one in which it stores or takes
\* its item: it returns MONITOR_SUCCESS and total_timeouts is unchanged.
C20_NoDeadlineNoTimeout ==
    [][\A t \in Threads :
         (pc[t] # "idle" /\ timeout_ms[t] = 0) =>
            /\ ret'[t] = 0
            /\ pc'[t] = "idle" =>
                  /\ Performs(t)
                  /\ lastReturn' = [thread |-> t, code |-> MONITOR_SUCCESS, ret |-> 0]
                  /\ total_timeouts' = total_timeouts]_vars

\* A remover without a deadline was blocked while the clock ran to its end and
\* other calls timed out; an insert has now woken it and it finds an item.
C20_Witness ==
    \E t \in Removers :
        /\ pc[t] = "woken" /\ timeout_ms[t] = 0 /\ ret[t] = 0
        /\ now = MaxNow
        /\ total_timeouts > 0
        /\ count > 0
        /\ lastReturn.thread \in Inserters /\ lastReturn.code = MONITOR_SUCCESS

\* ======================================================================
\* src/synchronization/test_monitor.c: three threads of priorities 10, 20, 30
\* enter and leave a priority monitor.  The mutex-protected bodies of
\* test_monitor_enter and test_monitor_exit are one step each; the test
\* thread's reads of `running` and of current_priority are made without the
\* mutex and are steps of their own.
\*   start --TmStart--> loop --TmLoop--> enter --TmEnter--> wait | inside
\*   wait --TmExit of another | TmSpurious--> woken --TmReenter--> wait | inside
\*   inside --TmBreak--> verify --TmVerify--> held --TmExit--> loop
\* ======================================================================
TmFrame == UNCHANGED <<monitorVars, ptVars, dpVars, rwVars, tpVars, laterVars>>

\* test_monitor_enter, "Priority inheritance": the value of current_priority
\* after the if.
Inherited(t) ==
    IF current_thread # NoThread /\ Priority(t) > current_priority
    THEN Priority(t) ELSE current_priority

\* test_monitor_enter, the loop condition, with current_priority = prio.
TmMustWait(t, prio) == current_thread # NoThread /\ Priority(t) <= prio

\* test_monitor_enter from the loop on: wait, or become the current thread.
TmLoopStep(t, prio) ==
    IF TmMustWait(t, prio)
    THEN /\ tmPc' = [tmPc EXCEPT ![t] = "wait"]
         /\ current_priority' = prio
         /\ UNCHANGED current_thread
    ELSE /\ tmPc' = [tmPc EXCEPT ![t] = "inside"]
         /\ current_thread' = t
         /\ current_priority' = Priority(t)

\* pthread_setschedparam(SCHED_FIFO), which the system may refuse (ok = FALSE).
TmStart(t, ok) ==
    /\ tmPc[t] = "start"
    /\ IF ok
       THEN tmPc' = [tmPc EXCEPT ![t] = "loop"] /\ UNCHANGED errors
       ELSE /\ tmPc' = [tmPc EXCEPT ![t] = "done"]
            /\ errors' = [errors EXCEPT ![t] = @ + 1]
    /\ UNCHANGED <<current_thread, current_priority, operations, tm_running>>
    /\ TmFrame

\* while (running && thread->operations < TEST_MAX_OPERATIONS)
TmLoop(t) ==
    /\ tmPc[t] = "loop"
    /\ tmPc' = [tmPc EXCEPT ![t] =
                   IF tm_running /\ operations[t] < TEST_MAX_OPERATIONS
                   THEN "enter" ELSE "done"]
    /\ UNCHANGED <<current_thread, current_priority, operations, errors, tm_running>>
    /\ TmFrame

\* test_monitor_enter up to its first wait or its return.
TmEnter(t) ==
    /\ tmPc[t] = "enter"
    /\ TmLoopStep(t, Inherited(t))
    /\ UNCHANGED <<operations, errors, tm_running>>
    /\ TmFrame

\* pthread_cond_wait returned: the loop condition is tested again (the
\* inheritance if is not).
TmReenter(t) ==
    /\ tmPc[t] = "woken"
    /\ TmLoopStep(t, current_priority)
    /\ UNCHANGED <<operations, errors, tm_running>>
    /\ TmFrame

\* pthread_cond_wait may return without a broadcast.
TmSpurious(t) ==
    /\ tmPc[t] = "wait"
    /\ tmPc' = [tmPc EXCEPT ![t] = "woken"]
    /\ UNCHANGED <<current_thread, current_priority, operations, errors, tm_running>>
    /\ TmFrame

\* if (!running) break;   (the monitor is not left)
TmBreak(t) ==
    /\ tmPc[t] = "inside"
    /\ tmPc' = [tmPc EXCEPT ![t] = IF tm_running THEN "verify" ELSE "done"]
    /\ UNCHANGED <<current_thread, current_priority, operations, errors, tm_running>>
    /\ TmFrame

\* "Verify priority inheritance": current_priority is read without the mutex.
TmVerify(t) ==
    /\ tmPc[t] = "verify"
    /\ tmPc' = [tmPc EXCEPT ![t] = "held"]
    /\ errors' = [errors EXCEPT ![t] =
                     IF current_priority # Priority(t) THEN @ + 1 ELSE @]
    /\ UNCHANGED <<current_thread, current_priority, operations, tm_running>>
    /\ TmFrame

\* test_monitor_exit and thread->operations++.
TmExit(t) ==
    /\ tmPc[t] = "held"
    /\ current_thread' = NoThread
    /\ current_priority' = 0
    /\ tmPc' = [u \in TmThreads |->
                   IF u = t THEN "loop"
                   ELSE IF tmPc[u] = "wait" THEN "woken"
                   ELSE tmPc[u]]
    /\ operations' = [operations EXCEPT ![t] = @ + 1]
    /\ UNCHANGED <<errors, tm_running>>
    /\ TmFrame

\* main gives up after TEST_TIMEOUT_SECONDS: running = 0.
TmTimeout ==
    /\ tm_running
    /\ tm_running' = FALSE
    /\ UNCHANGED <<current_thread, current_priority, operations, errors, tmPc>>
    /\ TmFrame

NextTestMonitor ==
    \/ \E t \in TmThreads, ok \in BOOLEAN : TmStart(t, ok)
    \/ \E t \in TmThreads : TmLoop(t)
    \/ \E t \in TmThreads : TmEnter(t)
    \/ \E t \in TmThreads : TmReenter(t)
    \/ \E t \in TmThreads : TmSpurious(t)
    \/ \E t \in TmThreads : TmBreak(t)
    \/ \E t \in TmThreads : TmVerify(t)
    \/ \E t \in TmThreads : TmExit(t)
    \/ TmTimeout

SpecTestMonitor == Init /\ [][NextTestMonitor]_vars

\* test_monitor_enter has returned to t and t has not called test_monitor_exit.
TmInside(t) == tmPc[t] \in {"inside", "verify", "held"}

\* C21: whenever a thread is inside the test monitor, current_priority is
\* that thread's own priority, and a thread at work in its loop has recorded
\* no "Priority inheritance failed" error.  (A thread that is done may hold
\* the error of a refused pthread_setschedparam, which is of another kind.)
C21_PriorityOfHolder ==
    \A t \in TmThreads :
        /\ TmInside(t) => current_priority = Priority(t)
        /\ tmPc[t] # "done" => errors[t] = 0

\* C22: at most one thread is between the return of test_monitor_enter and
\* its call of test_monitor_exit.
C22_OneInside ==
    \A t, u \in TmThreads : TmInside(t) /\ TmInside(u) => t = u

\* ======================================================================
\* src/unnamed/part_000: Peterson's algorithm for two processes.  Memory is
\* sequentially consistent: every read and every write of flag, turn and
\* running is one step, in program order.
\*   loop --PtLoop--> set_flag --> set_turn --> rd_flag --> rd_turn --> rd_run
\*   rd_* --> brk (the busy wait is over) --PtBreak--> cs --PtExit--> loop
\* ======================================================================
PtFrame == UNCHANGED <<monitorVars, tmVars, dpVars, rwVars, tpVars, laterVars>>

Other(p) == 1 - p

\* Process p has written flag and turn and is in the busy wait of
\* enter_critical_section, or has just left it.
Waiting(p) == ptPc[p] \in {"rd_flag", "rd_turn", "rd_run", "brk"}

\* enter_critical_section: the value written to turn.
TurnKept(p) == p
TurnGiven(p) == Other(p)

\* while (running && iterations < MAX_ITERATIONS), and the non-critical section.
PtLoop(p) ==
    /\ ptPc[p] = "loop"
    /\ ptPc' = [ptPc EXCEPT ![p] =
                   IF pt_running /\ iterations[p] < MAX_ITERATIONS
                   THEN "set_flag" ELSE "done"]
    /\ UNCHANGED <<flag, turn, pt_running, iterations, overtaken>>
    /\ PtFrame

\* flag[process_id] = 1;
PtSetFlag(p) ==
    /\ ptPc[p] = "set_flag"
    /\ flag' = [flag EXCEPT ![p] = 1]
    /\ ptPc' = [ptPc EXCEPT ![p] = "set_turn"]
    /\ UNCHANGED <<turn, pt_running, iterations, overtaken>>
    /\ PtFrame

\* turn = other;
PtSetTurn(p) ==
    /\ ptPc[p] = "set_turn"
    /\ turn' = TurnGiven(p)
    /\ ptPc' = [ptPc EXCEPT ![p] = "rd_flag"]
    /\ UNCHANGED <<flag, pt_running, iterations, overtaken>>
    /\ PtFrame

\* The busy wait, while (flag[other] && turn == other && running): the three
\* operands are read one after the other, left to right.
PtReadFlag(p) ==
    /\ ptPc[p] = "rd_flag"
    /\ ptPc' = [ptPc EXCEPT ![p] = IF flag[Other(p)] # 0 THEN "rd_turn" ELSE "brk"]
    /\ UNCHANGED <<flag, turn, pt_running, iterations, overtaken>>
    /\ PtFrame

PtReadTurn(p) ==
    /\ ptPc[p] = "rd_turn"
    /\ ptPc' = [ptPc EXCEPT ![p] = IF turn = Other(p) THEN "rd_run" ELSE "brk"]
    /\ UNCHANGED <<flag, turn, pt_running, iterations, overtaken>>
    /\ PtFrame

PtReadRunning(p) ==
    /\ ptPc[p] = "rd_run"
    /\ ptPc' = [ptPc EXCEPT ![p] = IF pt_running THEN "rd_flag" ELSE "brk"]
    /\ UNCHANGED <<flag, turn, pt_running, iterations, overtaken>>
    /\ PtFrame

\* if (!running) break;   (flag[process_id] stays 1)
PtBreak(p) ==
    /\ ptPc[p] = "brk"
    /\ ptPc' = [ptPc EXCEPT ![p] = IF pt_running THEN "cs" ELSE "done"]
    /\ overtaken' = [q \in Procs |->
                        IF q = p THEN 0
                        ELSE IF pt_running /\ Waiting(q) THEN overtaken[q] + 1
                        ELSE overtaken[q]]
    /\ UNCHANGED <<flag, turn, pt_running, iterations>>
    /\ PtFrame

\* The critical section ends: exit_critical_section and iterations++.
PtExit(p) ==
    /\ ptPc[p] = "cs"
    /\ flag' = [flag EXCEPT ![p] = 0]
    /\ iterations' = [iterations EXCEPT ![p] = @ + 1]
    /\ ptPc' = [ptPc EXCEPT ![p] = "loop"]
    /\ UNCHANGED <<turn, pt_running, overtaken>>
    /\ PtFrame

\* signal_handler: running = 0, at any moment.
PtSignal ==
    /\ pt_running
    /\ pt_running' = FALSE
    /\ UNCHANGED <<flag, turn, iterations, ptPc, overtaken>>
    /\ PtFrame

NextPeterson ==
    \/ \E p \in Procs : PtLoop(p)
    \/ \E p \in Procs : PtSetFlag(p)
    \/ \E p \in Procs : PtSetTurn(p)
    \/ \E p \in Procs : PtReadFlag(p)
    \/ \E p \in Procs : PtReadTurn(p)
    \/ \E p \in Procs : PtReadRunning(p)
    \/ \E p \in Procs : PtBreak(p)
    \/ \E p \in Procs : PtExit(p)
    \/ PtSignal

SpecPeterson == Init /\ [][NextPeterson]_vars

\* Process p is between "entered critical section" and exit_critical_section.
InCS(p) == ptPc[p] = "cs"

\* C23: the two processes are never inside the critical section together,
\* whenever running is cleared.
C23_MutualExclusion == ~(InCS(0) /\ InCS(1))

\* One process is in its critical section, the other is kept in the busy wait
\* with its flag raised, and running has been cleared meanwhile.
C23_Witness ==
    /\ InCS(0)
    /\ ptPc[1] \in {"rd_flag", "rd_turn", "rd_run"}
    /\ flag[1] = 1 /\ turn = 0
    /\ ~pt_running
    /\ iterations[0] > 0

\* C35: while a process is in the busy wait of enter_critical_section (it has
\* written its flag and given the turn away), the other process enters the
\* critical section at most once before the waiting process does.
C35_BoundedWaiting == \A p \in Procs : overtaken[p] <= 1

\* Process p still waits after the other process has entered once since, and
\* the other process, back in enter_critical_section, is held in its own busy
\* wait: the turn is p's.
C35_Witness ==
    \E p \in Procs :
        /\ pt_running
        /\ overtaken[p] = 1
        /\ ptPc[p] \in {"rd_flag", "rd_turn", "rd_run"}
        /\ ptPc[Other(p)] \in {"rd_flag", "rd_turn", "rd_run"}
        /\ flag[p] = 1 /\ flag[Other(p)] = 1 /\ turn = p

\* ======================================================================
\* src/synchronization/dining_philosophers.c: philosophers around a table,
\* one mutex, one condition variable per philosopher.  Each section of
\* philosopher_thread that runs with the mutex held is one step.
\*   loop --DpLoop--> hungry --DpHungry--> wait | eating | done
\*   wait --DpFinish of a neighbour | DpSpurious--> woken --DpRetry--> ...
\*   eating --DpFinish--> loop
\* running is never cleared here: no signal arrives.
\* ======================================================================
DpFrame == UNCHANGED <<monitorVars, tmVars, ptVars, rwVars, tpVars, laterVars>>

Left(p) == (p + NUM_PHILOSOPHERS - 1) % NUM_PHILOSOPHERS
Right(p) == (p + 1) % NUM_PHILOSOPHERS

\* can_eat, evaluated on the states array st.
can_eat_left_only(st, p) ==
    /\ st[p] = "HUNGRY"
    /\ st[Left(p)] # "EATING"
can_eat(st, p) ==
    /\ st[p] = "HUNGRY"
    /\ st[Left(p)] # "EATING"
    /\ st[Right(p)] # "EATING"

\* "Notify neighbors": the neighbours whose condition variable is signalled,
\* st being the states array after states[philosopher] = THINKING.
NotifiedNobody(st, p) == {}
Notified(st, p) == {n \in {Left(p), Right(p)} : st[n] = "HUNGRY" /\ can_eat(st, n)}

\* while (running && meals_eaten[philosopher] < MAX_MEALS), and thinking.
DpLoop(p) ==
    /\ dpPc[p] = "loop"
    /\ dpPc' = [dpPc EXCEPT ![p] =
                   IF dp_running /\ meals_eaten[p] < MAX_MEALS THEN "hungry" ELSE "done"]
    /\ UNCHANGED <<states, meals_eaten, dp_running>>
    /\ DpFrame

\* "Try to eat" with the mutex held and st the states array: wait, give up
\* because running is cleared, or eat.
DpTry(p, st) ==
    IF ~can_eat(st, p) /\ dp_running
    THEN /\ dpPc' = [dpPc EXCEPT ![p] = "wait"]
         /\ states' = st
         /\ UNCHANGED meals_eaten
    ELSE IF ~dp_running
    THEN /\ dpPc' = [dpPc EXCEPT ![p] = "done"]
         /\ states' = st
         /\ UNCHANGED meals_eaten
    ELSE /\ dpPc' = [dpPc EXCEPT ![p] = "eating"]
         /\ states' = [st EXCEPT ![p] = "EATING"]
         /\ meals_eaten' = [meals_eaten EXCEPT ![p] = @ + 1]

\* "Get hungry": states[philosopher] = HUNGRY, then the first try.
DpHungry(p) ==
    /\ dpPc[p] = "hungry"
    /\ DpTry(p, [states EXCEPT ![p] = "HUNGRY"])
    /\ UNCHANGED dp_running
    /\ DpFrame

\* pthread_cond_wait returned: the next try.
DpRetry(p) ==
    /\ dpPc[p] = "woken"
    /\ DpTry(p, states)
    /\ UNCHANGED dp_running
    /\ DpFrame

\* pthread_cond_wait may return without a signal.
DpSpurious(p) ==
    /\ dpPc[p] = "wait"
    /\ dpPc' = [dpPc EXCEPT ![p] = "woken"]
    /\ UNCHANGED <<states, meals_eaten, dp_running>>
    /\ DpFrame

\* "Finish eating" and "Notify neighbors".
DpFinish(p) ==
    /\ dpPc[p] = "eating"
    /\ LET st == [states EXCEPT ![p] = "THINKING"] IN
        /\ states' = st
        /\ dpPc' = [q \in Philosophers |->
                       IF q = p THEN "loop"
                       ELSE IF q \in Notified(st, p) /\ dpPc[q] = "wait" THEN "woken"
                       ELSE dpPc[q]]
    /\ UNCHANGED <<meals_eaten, dp_running>>
    /\ DpFrame

\* The steps philosopher p takes by itself.
DpStep(p) == DpLoop(p) \/ DpHungry(p) \/ DpRetry(p) \/ DpFinish(p)

NextDining ==
    \/ \E p \in Philosophers : DpLoop(p)
    \/ \E p \in Philosophers : DpHungry(p)
    \/ \E p \in Philosophers : DpRetry(p)
    \/ \E p \in Philosophers : DpFinish(p)
    \/ \E p \in Philosophers : DpSpurious(p)

\* Fair scheduling: a philosopher that can take a step takes one.  Wake-ups
\* without a signal may happen but are never owed.
SpecDining ==
    Init /\ [][NextDining]_vars /\ \A p \in Philosophers : WF_vars(DpStep(p))

\* Every philosopher has eaten MAX_MEALS meals and its thread has returned.
AllFed == \A p \in Philosophers : dpPc[p] = "done" /\ meals_eaten[p] = MAX_MEALS

\* C24: no hungry philosopher waits forever: each one that is hungry comes to
\* eat, and in the end every philosopher has eaten MAX_MEALS meals and its
\* thread has terminated.
C24_AllEatAndTerminate ==
    /\ \A p \in Philosophers : (states[p] = "HUNGRY") ~> (states[p] = "EATING")
    /\ <>[]AllFed

\* A hungry philosopher is blocked while both its neighbours eat.
C24_Witness ==
    /\ dpPc[0] = "wait" /\ states[0] = "HUNGRY"
    /\ states[Left(0)] = "EATING" /\ states[Right(0)] = "EATING"
    /\ meals_eaten[Left(0)] = MAX_MEALS

\* ======================================================================
\* src/synchronization/readers_writers.c: writers have priority over
\* readers.  start_read, end_read, start_write and end_write hold the
\* mutex from their first to their last statement, so each is one step up
\* to its wait or its return.
\*   idle --RwStartRead | RwStartWrite--> wait | active
\*   wait --signal, broadcast | RwSpurious--> woken --retry--> wait | active
\*   active --RwEndRead | RwEndWrite--> idle
\* ======================================================================
RwFrame == UNCHANGED <<monitorVars, tmVars, ptVars, dpVars, tpVars, laterVars>>

\* The loop condition of start_read.
ReaderMustWaitActiveOnly == writer_active
ReaderMustWaitWaitingOnly == writers_waiting > 0
ReaderMustWait == writer_active \/ writers_waiting > 0

\* The loop condition of start_write.
WriterMustWaitReadersOnly == readers_count > 0
WriterMustWait == readers_count > 0 \/ writer_active

\* Threads blocked in pthread_cond_wait on monitor.writers.
BlockedWriters == {w \in Writers : rwPc[w] = "wait"}

\* pthread_cond_signal(&monitor.writers): the thread woken, if any waits.
SignalWriters == IF BlockedWriters = {} THEN {NoThread} ELSE BlockedWriters

\* start_read from the loop on.
RwReadStep(r) ==
    IF ReaderMustWait
    THEN rwPc' = [rwPc EXCEPT ![r] = "wait"] /\ UNCHANGED readers_count
    ELSE rwPc' = [rwPc EXCEPT ![r] = "active"] /\ readers_count' = readers_count + 1

RwStartRead(r) ==
    /\ rwPc[r] = "idle"
    /\ RwReadStep(r)
    /\ UNCHANGED <<writer_active, writers_waiting>>
    /\ RwFrame

RwReadRetry(r) ==
    /\ rwPc[r] = "woken"
    /\ RwReadStep(r)
    /\ UNCHANGED <<writer_active, writers_waiting>>
    /\ RwFrame

\* end_read, w the writer the signal wakes.
RwEndRead(r, w) ==
    /\ rwPc[r] = "active"
    /\ readers_count' = readers_count - 1
    /\ w \in (IF readers_count - 1 = 0 THEN SignalWriters ELSE {NoThread})
    /\ rwPc' = [t \in Readers \cup Writers |->
                   IF t = r THEN "idle" ELSE IF t = w THEN "woken" ELSE rwPc[t]]
    /\ UNCHANGED <<writer_active, writers_waiting>>
    /\ RwFrame

\* start_write from the loop on, waiting the value of writers_waiting.
RwWriteStep(w, waiting) ==
    IF WriterMustWait
    THEN /\ rwPc' = [rwPc EXCEPT ![w] = "wait"]
         /\ writers_waiting' = waiting
         /\ UNCHANGED writer_active
    ELSE /\ rwPc' = [rwPc EXCEPT ![w] = "active"]
         /\ writers_waiting' = waiting - 1
         /\ writer_active' = TRUE

RwStartWrite(w) ==
    /\ rwPc[w] = "idle"
    /\ RwWriteStep(w, writers_waiting + 1)
    /\ UNCHANGED readers_count
    /\ RwFrame

RwWriteRetry(w) ==
    /\ rwPc[w] = "woken"
    /\ RwWriteStep(w, writers_waiting)
    /\ UNCHANGED readers_count
    /\ RwFrame

\* end_write, u the writer the signal wakes.
RwEndWrite(w, u) ==
    /\ rwPc[w] = "active"
    /\ writer_active' = FALSE
    /\ u \in (IF writers_waiting = 0 THEN {NoThread} ELSE SignalWriters)
    /\ rwPc' = [t \in Readers \cup Writers |->
                   IF t = w THEN "idle"
                   ELSE IF writers_waiting = 0 /\ t \in Readers /\ rwPc[t] = "wait" THEN "woken"
                   ELSE IF t = u THEN "woken"
                   ELSE rwPc[t]]
    /\ UNCHANGED <<readers_count, writers_waiting>>
    /\ RwFrame

\* pthread_cond_wait may return without a signal.
RwSpurious(t) ==
    /\ rwPc[t] = "wait"
    /\ rwPc' = [rwPc EXCEPT ![t] = "woken"]
    /\ UNCHANGED <<readers_count, writer_active, writers_waiting>>
    /\ RwFrame

NextRW ==
    \/ \E r \in Readers : RwStartRead(r)
    \/ \E r \in Readers : RwReadRetry(r)
    \/ \E r \in Readers, w \in Writers \cup {NoThread} : RwEndRead(r, w)
    \/ \E w \in Writers : RwStartWrite(w)
    \/ \E w \in Writers : RwWriteRetry(w)
    \/ \E w \in Writers, u \in Writers \cup {NoThread} : RwEndWrite(w, u)
    \/ \E t \in Readers \cup Writers : RwSpurious(t)

\* The step in which writer w becomes the active writer.
RwWriterEnters(w) == (RwStartWrite(w) \/ RwWriteRetry(w)) /\ rwPc'[w] = "active"

\* Fair scheduling: a woken thread runs, and a woken writer that finds the
\* monitor free again and again is not overtaken by the other writer for
\* ever.  Every active reader and writer ends.  Thinking may last for ever,
\* wake-ups without a signal are never owed.
SpecRW ==
    /\ Init /\ [][NextRW]_vars
    /\ \A r \in Readers : WF_vars(RwReadRetry(r))
    /\ \A r \in Readers : WF_vars(\E w \in Writers \cup {NoThread} : RwEndRead(r, w))
    /\ \A w \in Writers : WF_vars(RwWriteRetry(w))
    /\ \A w \in Writers : SF_vars(RwWriterEnters(w))
    /\ \A w \in Writers : WF_vars(\E u \in Writers \cup {NoThread} : RwEndWrite(w, u))

\* Writer w has called start_write and is not yet the active writer.
WriterPending(w) == rwPc[w] \in {"wait", "woken"}

ReaderEnters == readers_count' = readers_count + 1

\* C38: writer priority in readers_writers.c.  No reader completes
\* start_read (increments readers_count) in a state where writers_waiting > 0
\* or writer_active holds, on its first pass or on the pass after a spurious
\* or broadcast wake-up; readers_count grows by one at a time, and only by a
\* reader that becomes active in the same step.
C38_WriterPriority ==
    [][/\ ReaderEnters => ~writer_active /\ writers_waiting = 0
       /\ readers_count' > readers_count => ReaderEnters
       /\ \A r \in Readers :
              (rwPc[r] # "active" /\ rwPc'[r] = "active") =>
                  /\ rwPc[r] \in {"idle", "woken"}
                  /\ ReaderEnters
                  /\ ~ReaderMustWait]_vars

\* A reader whose wait has ended while a writer is still waiting for the
\* other reader to finish: its next pass through the loop must hold it back.
C38_Witness ==
    /\ rwPc["rd1"] = "woken"
    /\ rwPc["rd2"] = "active" /\ readers_count = 1
    /\ rwPc["wr1"] = "wait" /\ writers_waiting > 0


\* ======================================================================
\* src/threads/thread_pool.c: main submits NumTasks tasks and shuts the pool
\* down; the workers take tasks from the ring task_queue.  The sections
\* that run with queue_mutex held are one step each; a task is executed
\* with the mutex released.
\*   worker: lock --TpWorker--> wait | exec | exited,  exec --TpExecute--> lock
\*           wait --add_task, shutdown | TpSpurious--> woken --TpWorker--> ...
\*   main:   submit --TpSubmit--> submit | full,  full --> woken --TpSubmitRetry-->
\*           submit --TpShutdown--> join --TpJoin--> done
\* ======================================================================
TpFrame == UNCHANGED <<monitorVars, tmVars, ptVars, dpVars, rwVars, laterVars>>

\* The tasks in the queue, oldest first.
Queued == [k \in 1..queue_size |-> task_queue[(queue_front + k - 1) % TASK_QUEUE_SIZE]]

\* worker_thread, "Check for shutdown".
MustExitOnShutdown == shutdown # 0
MustExit == shutdown # 0 /\ queue_size = 0

\* Workers blocked in pthread_cond_wait on queue_not_empty.
IdleWorkers == {w \in Workers : tpPc[w] = "wait"}

\* pthread_cond_signal(&pool.queue_not_empty): the worker woken, 0 if none waits.
SignalNotEmpty == IF IdleWorkers = {} THEN {0} ELSE IdleWorkers

\* worker_thread from pthread_mutex_lock (or from the return of
\* pthread_cond_wait) to its wait, its exit, or the unlock after taking a
\* task; the signal on queue_not_full wakes main when it waits in add_task.
TpWorker(w) ==
    /\ tpPc[w] \in {"lock", "woken"}
    /\ IF queue_size = 0 /\ shutdown = 0
       THEN /\ tpPc' = [tpPc EXCEPT ![w] = "wait"]
            /\ UNCHANGED <<task_queue, queue_size, queue_front, active_threads, task, tpMain>>
       ELSE IF MustExit
       THEN /\ tpPc' = [tpPc EXCEPT ![w] = "exited"]
            /\ active_threads' = active_threads - 1
            /\ UNCHANGED <<task_queue, queue_size, queue_front, task, tpMain>>
       ELSE /\ tpPc' = [tpPc EXCEPT ![w] = "exec"]
            /\ task' = [task EXCEPT ![w] = task_queue[queue_front]]
            /\ queue_front' = (queue_front + 1) % TASK_QUEUE_SIZE
            /\ queue_size' = queue_size - 1
            /\ tpMain' = IF tpMain = "full" THEN "woken" ELSE tpMain
            /\ UNCHANGED <<task_queue, active_threads>>
    /\ UNCHANGED <<queue_rear, shutdown, priority, submitted, accepted, executed>>
    /\ TpFrame

\* execute_task(&task).
TpExecute(w) ==
    /\ tpPc[w] = "exec"
    /\ executed' = Append(executed, task[w].arg)
    /\ tpPc' = [tpPc EXCEPT ![w] = "lock"]
    /\ UNCHANGED <<task_queue, queue_size, queue_front, queue_rear, shutdown, active_threads,
                   task, priority, tpMain, submitted, accepted>>
    /\ TpFrame

\* pthread_cond_wait may return without a signal.
TpSpurious(w) ==
    /\ tpPc[w] = "wait"
    /\ tpPc' = [tpPc EXCEPT ![w] = "woken"]
    /\ UNCHANGED <<task_queue, queue_size, queue_front, queue_rear, shutdown, active_threads,
                   task, priority, tpMain, submitted, accepted, executed>>
    /\ TpFrame

\* add_task from its wait loop on, for task number submitted + 1 with
\* priority prio; w is the worker the signal on queue_not_empty wakes.
TpAddStep(prio, w) ==
    IF queue_size = TASK_QUEUE_SIZE /\ shutdown = 0
    THEN /\ tpMain' = "full"
         /\ priority' = prio
         /\ UNCHANGED <<task_queue, queue_size, queue_rear, tpPc, submitted, accepted>>
    ELSE IF shutdown # 0
    THEN /\ tpMain' = "submit"
         /\ priority' = 0
         /\ submitted' = submitted + 1
         /\ UNCHANGED <<task_queue, queue_size, queue_rear, tpPc, accepted>>
    ELSE /\ tpMain' = "submit"
         /\ priority' = 0
         /\ task_queue' = [task_queue EXCEPT ![queue_rear] =
                              [arg |-> submitted + 1, priority |-> prio]]
         /\ queue_rear' = (queue_rear + 1) % TASK_QUEUE_SIZE
         /\ queue_size' = queue_size + 1
         /\ w \in SignalNotEmpty
         /\ tpPc' = [v \in Workers |-> IF v = w THEN "woken" ELSE tpPc[v]]
         /\ submitted' = submitted + 1
         /\ accepted' = accepted \cup {submitted + 1}

\* main calls thread_pool_submit (prio = 0) or thread_pool_submit_priority.
TpSubmit(prio, w) ==
    /\ tpMain = "submit"
    /\ submitted < NumTasks
    /\ TpAddStep(prio, w)
    /\ UNCHANGED <<queue_front, shutdown, active_threads, task, executed>>
    /\ TpFrame

\* pthread_cond_wait(&pool.queue_not_full) returned in add_task.
TpSubmitRetry(w) ==
    /\ tpMain = "woken"
    /\ TpAddStep(priority, w)
    /\ UNCHANGED <<queue_front, shutdown, active_threads, task, executed>>
    /\ TpFrame

TpMainSpurious ==
    /\ tpMain = "full"
    /\ tpMain' = "woken"
    /\ UNCHANGED <<task_queue, queue_size, queue_front, queue_rear, shutdown, active_threads,
                   task, priority, tpPc, submitted, accepted, executed>>
    /\ TpFrame

\* thread_pool_shutdown up to its first pthread_join, called by main after
\* its last submission.
TpShutdown ==
    /\ tpMain = "submit"
    /\ submitted = NumTasks
    /\ shutdown' = 1
    /\ tpPc' = [w \in Workers |-> IF tpPc[w] = "wait" THEN "woken" ELSE tpPc[w]]
    /\ tpMain' = "join"
    /\ UNCHANGED <<task_queue, queue_size, queue_front, queue_rear, active_threads, task,
                   priority, submitted, accepted, executed>>
    /\ TpFrame

\* thread_pool_shutdown: every pthread_join has returned; cleanup.
TpJoin ==
    /\ tpMain = "join"
    /\ \A w \in Workers : tpPc[w] = "exited"
    /\ tpMain' = "done"
    /\ UNCHANGED <<task_queue, queue_size, queue_front, queue_rear, shutdown, active_threads,
                   task, priority, tpPc, submitted, accepted, executed>>
    /\ TpFrame

NextPool ==
    \/ \E w \in Workers : TpWorker(w)
    \/ \E w \in Workers : TpExecute(w)
    \/ \E w \in Workers : TpSpurious(w)
    \/ \E prio \in Priorities, w \in Workers \cup {0} : TpSubmit(prio, w)
    \/ \E w \in Workers \cup {0} : TpSubmitRetry(w)
    \/ TpMainSpurious
    \/ TpShutdown
    \/ TpJoin

\* Fair scheduling of the workers and of main; wake-ups without a signal are
\* never owed.
SpecPool ==
    /\ Init /\ [][NextPool]_vars
    /\ \A w \in Workers : WF_vars(TpWorker(w) \/ TpExecute(w))
    /\ WF_vars(\E prio \in Priorities, w \in Workers \cup {0} : TpSubmit(prio, w))
    /\ WF_vars(\E w \in Workers \cup {0} : TpSubmitRetry(w))
    /\ WF_vars(TpShutdown \/ TpJoin)

\* How many times task number n was executed.
TimesExecuted(n) == Cardinality({k \in 1..Len(executed) : executed[k] = n})

\* The step in which worker w exits.
Exits(w) == tpPc[w] # "exited" /\ tpPc'[w] = "exited"

\* C26: no task is executed twice and none that was not accepted; a worker
\* exits only when shutdown is set and the queue is empty; all workers exit
\* and the joins of thread_pool_shutdown complete, and by then every accepted
\* task was executed exactly once.
C26_GracefulShutdown ==
    /\ [](\A n \in 1..NumTasks : TimesExecuted(n) <= (IF n \in accepted THEN 1 ELSE 0))
    /\ [][\A w \in Workers : Exits(w) => shutdown # 0 /\ queue_size = 0]_vars
    /\ <>(tpMain = "done")
    /\ [](tpMain = "done" =>
            /\ \A w \in Workers : tpPc[w] = "exited"
            /\ \A n \in accepted : TimesExecuted(n) = 1)

\* The pool was shut down with tasks still queued, and after the joins every
\* task main submitted has been executed.
C26_Witness ==
    /\ tpMain = "done"
    /\ accepted = 1..NumTasks
    /\ Len(executed) = NumTasks
    /\ executed[NumTasks] # NumTasks

\* The step in which worker w takes a task from the queue.
Dequeues(w) == tpPc[w] # "exec" /\ tpPc'[w] = "exec"

\* C27: a worker always takes a task whose priority is the highest of the
\* tasks queued.
C27_HighestPriorityFirst ==
    [][\A w \in Workers :
          Dequeues(w) => \A k \in 1..queue_size : task'[w].priority >= Queued[k].priority]_vars

\* ======================================================================
\* src/synchronization/monitor.c again: timed waits.
\* ======================================================================
\* C28: a timed call returns Timeout only if its condition still holds when
\* it has the lock again after the wait expired: the buffer is still empty
\* for monitor_remove, still full for monitor_insert.
C28_TimeoutRevalidates ==
    [][\A t \in Threads :
          Finishes(t) /\ lastReturn'.code = MONITOR_ERROR_TIMEOUT => MustWait(t)]_vars

\* C29: the deadline of a timed call is fixed once: a call that was woken
\* and waits again waits for the deadline it had.
C29_OneDeadline ==
    [][\A t \in Threads :
          pc[t] = "woken" /\ pc'[t] = "wait" /\ timeout_ms[t] > 0 => ts'[t] = ts[t]]_vars

\* The step in which t, holding the mutex, runs check_deadlock and then waits.
Scans(t) ==
    /\ pc[t] \in {"lock", "woken"}
    /\ MustWait(t) /\ ret[t] = 0
    /\ pc'[t] \in {"wait", "post"}

\* C30: a check_deadlock scan, with or without a warning, leaves the buffer,
\* the counters, the waiter list (but for the caller's own new record) and
\* every other thread where they were, and a call returns what the result of
\* its wait says, whether or not a warning was printed.
C30_WatchdogObservesOnly ==
    [][\A t \in Threads :
          /\ Scans(t) =>
                /\ UNCHANGED <<monVars, initialized>>
                /\ waiting_threads' = IF pc[t] = "lock"
                                        THEN <<WaiterRecord(t)>> \o waiting_threads
                                        ELSE waiting_threads
                /\ \A u \in Threads \ {t} : pc'[u] = pc[u] /\ ret'[u] = ret[u]
          /\ Finishes(t) =>
                lastReturn'.code =
                    IF ret[t] = 0 THEN MONITOR_SUCCESS ELSE MONITOR_ERROR_TIMEOUT]_vars

\* check_deadlock has warned about consumer r1, which waited six seconds, and
\* r1 has then taken an item and returned MONITOR_SUCCESS.
C30_Witness ==
    /\ warned = {"r1"}
    /\ lastReturn = [thread |-> "r1", code |-> MONITOR_SUCCESS, ret |-> 0]
    /\ removed # <<>>

\* ======================================================================
\* src/synchronization/monitor.c again: the waiter list and its observers.
\* ======================================================================
\* The call of t is inside pthread_cond_wait / pthread_cond_timedwait: blocked
\* on its condition variable, or woken and waiting to get the mutex back.
InsideWait(t) == pc[t] \in {"wait", "woken"}

\* What t waits for holds: space for an inserter, data for a remover.
ConditionHolds(t) == IF t \in Inserters THEN count < BUFFER_SIZE ELSE count > 0

\* The threads other than t that have a record in the waiter list.
OtherWaiters(t) ==
    {waiting_threads[j].id : j \in 1..Len(waiting_threads)} \ {t}

\* C31: a thread other than the holder of the mutex has a record in the
\* waiter list only while it is inside its wait on not_full / not_empty, so
\* that is all a check_deadlock scan by another thread can see; and a call
\* that finds its condition holding when it takes the lock does not wait: it
\* keeps the mutex until it has removed its record and returned.
C31_WaiterOnlyWhileBlocked ==
    /\ [](\A t \in Threads : pc[t] = "post" => \A u \in OtherWaiters(t) : InsideWait(u))
    /\ [][\A t \in Threads :
            /\ Scans(t) => \A u \in OtherWaiters(t) : InsideWait(u)
            /\ (pc[t] = "lock" /\ pc'[t] \in {"wait", "post"} /\ ConditionHolds(t)) =>
                  pc'[t] = "post" /\ mutexOwner' = t
            /\ (pc[t] = "post" /\ pc'[t] # "post") =>
                  /\ pc'[t] = "idle"
                  /\ FirstOf(waiting_threads', t, 1) = 0]_vars

\* A producer that found space at once (nothing was ever removed, and the
\* buffer is not full) holds the mutex with its record in the list, beside a
\* consumer that is blocked and that a scan has warned about.
C31_Witness ==
    \E t \in Inserters, u \in Removers :
        /\ pc[t] = "post" /\ ret[t] = 0
        /\ total_removals = 0 /\ count < BUFFER_SIZE
        /\ FirstOf(waiting_threads, t, 1) # 0
        /\ pc[u] = "wait"
        /\ u \in warned

\* ======================================================================
\* src/synchronization/monitor.c, the simple variant (lines 1-191): the same
\* ring buffer without the initialized flag, the waiter list and the
\* counters.  A call is cut as above: idle, lock, wait, woken, post.  A timed
\* wait may end with a non-zero result at any moment (the deadline is
\* reached, or the time handed over is not valid).
\* ======================================================================
SvFrame ==
    UNCHANGED <<monitorVars, tmVars, ptVars, dpVars, rwVars, tpVars, statVars, fkVars, rpVars,
                clVars>>

\* The items the producer inserts, in order.
SvItemStream == <<5, 6, 7, 8>>

\* The loop conditions (without ret == 0).
SvMustWait(t) == IF t \in SvInserters THEN simple_count = BUFFER_SIZE ELSE simple_count = 0

\* if (pthread_mutex_lock(&monitor.mutex) != 0 || item == NULL) return -1;
\* evaluated by t once the lock call has succeeded: does the call return here,
\* and who holds the mutex afterwards.
SvRejected(t) == t \in SvRemovers /\ svItem[t] = NullItem
SvHolderAfterReject(t) == t

\* The call of t returns code.
SvReturn(t, code) ==
    /\ svPc' = [svPc EXCEPT ![t] = "idle"]
    /\ svRet' = [svRet EXCEPT ![t] = 0]
    /\ svTimeout' = [svTimeout EXCEPT ![t] = 0]
    /\ svItem' = [svItem EXCEPT ![t] = 0]
    /\ svOps' = [svOps EXCEPT ![t] = @ + 1]
    /\ svLast' = [thread |-> t, code |-> code]

\* Entry of monitor_insert(item, tmo) / monitor_remove(item, tmo): the locals.
SvCall(t, tmo, it) ==
    /\ SvFrame
    /\ svPc[t] = "idle"
    /\ svOps[t] < MaxOps
    /\ svPc' = [svPc EXCEPT ![t] = "lock"]
    /\ svRet' = [svRet EXCEPT ![t] = 0]
    /\ svTimeout' = [svTimeout EXCEPT ![t] = tmo]
    /\ svItem' = [svItem EXCEPT ![t] = it]
    /\ UNCHANGED <<simple_buffer, simple_count, simple_in, simple_out, simple_mutex, svOps,
                   svLast>>

\* The while loop, evaluated by t holding the mutex with wait result r.
SvLoopStep(t, r) ==
    IF SvMustWait(t) /\ r = 0
      THEN /\ svPc' = [svPc EXCEPT ![t] = "wait"]
           /\ simple_mutex' = NoThread
           /\ svRet' = [svRet EXCEPT ![t] = 0]
      ELSE /\ svPc' = [svPc EXCEPT ![t] = "post"]
           /\ simple_mutex' = t
           /\ svRet' = [svRet EXCEPT ![t] = r]

\* pthread_mutex_lock succeeds (the mutex is of the default kind: a thread
\* that locks it again while it holds it blocks like any other); then the
\* NULL test of monitor_remove, then the while loop.
SvEnter(t) ==
    /\ SvFrame
    /\ svPc[t] = "lock"
    /\ simple_mutex = NoThread
    /\ IF SvRejected(t)
         THEN /\ SvReturn(t, -1)
              /\ simple_mutex' = SvHolderAfterReject(t)
         ELSE /\ SvLoopStep(t, 0)
              /\ UNCHANGED <<svTimeout, svItem, svOps, svLast>>
    /\ UNCHANGED <<simple_buffer, simple_count, simple_in, simple_out>>

\* The woken thread takes the mutex again; its wait returns svRet into the loop.
SvReacquire(t) ==
    /\ SvFrame
    /\ svPc[t] = "woken"
    /\ simple_mutex = NoThread
    /\ SvLoopStep(t, svRet[t])
    /\ UNCHANGED <<simple_buffer, simple_count, simple_in, simple_out, svTimeout, svItem,
                   svOps, svLast>>

\* The wait ends although nobody signalled.
SvSpurious(t) ==
    /\ SvFrame
    /\ svPc[t] = "wait"
    /\ svPc' = [svPc EXCEPT ![t] = "woken"]
    /\ UNCHANGED <<simple_buffer, simple_count, simple_in, simple_out, simple_mutex, svRet,
                   svTimeout, svItem, svOps, svLast>>

\* pthread_cond_timedwait ends with a non-zero result.
SvTimedOut(t) ==
    /\ SvFrame
    /\ svPc[t] = "wait"
    /\ svTimeout[t] > 0
    /\ svPc' = [svPc EXCEPT ![t] = "woken"]
    /\ svRet' = [svRet EXCEPT ![t] = ETIMEDOUT]
    /\ UNCHANGED <<simple_buffer, simple_count, simple_in, simple_out, simple_mutex,
                   svTimeout, svItem, svOps, svLast>>

\* Threads blocked on the condition variable t signals after its operation.
SvBlockedPeers(t) ==
    {u \in (IF t \in SvInserters THEN SvRemovers ELSE SvInserters) : svPc[u] = "wait"}
SvWakeChoices(t) ==
    IF svRet[t] = 0 /\ SvBlockedPeers(t) # {} THEN SvBlockedPeers(t) ELSE {NoThread}

\* After the loop: store / take the item and signal if ret == 0; unlock;
\* return (ret == 0) ? 0 : -1.
SvFinish(t) ==
    /\ SvFrame
    /\ svPc[t] = "post"
    /\ simple_mutex = t
    /\ IF svRet[t] # 0
         THEN UNCHANGED <<simple_buffer, simple_count, simple_in, simple_out>>
         ELSE IF t \in SvInserters
           THEN /\ simple_buffer' = [simple_buffer EXCEPT ![simple_in] = svItem[t]]
                /\ simple_in' = (simple_in + 1) % BUFFER_SIZE
                /\ simple_count' = simple_count + 1
                /\ UNCHANGED simple_out
           ELSE /\ simple_out' = (simple_out + 1) % BUFFER_SIZE
                /\ simple_count' = simple_count - 1
                /\ UNCHANGED <<simple_buffer, simple_in>>
    /\ \E w \in SvWakeChoices(t) :
          svPc' = [u \in SvThreads |->
                      IF u = t THEN "idle" ELSE IF u = w THEN "woken" ELSE svPc[u]]
    /\ svRet' = [svRet EXCEPT ![t] = 0]
    /\ svTimeout' = [svTimeout EXCEPT ![t] = 0]
    /\ svItem' = [svItem EXCEPT ![t] = 0]
    /\ svOps' = [svOps EXCEPT ![t] = @ + 1]
    /\ svLast' = [thread |-> t, code |-> IF svRet[t] = 0 THEN 0 ELSE -1]
    /\ simple_mutex' = NoThread

\* timeout_ms arguments: 0, 1000 (the producer's) and 1500 (the consumer's).
SvTimeouts == {0, 1000, 1500}

NextSimple ==
    \/ \E t \in SvInserters, tmo \in SvTimeouts : SvCall(t, tmo, SvItemStream[svOps[t] + 1])
    \/ \E t \in SvRemovers, tmo \in SvTimeouts, it \in {0, NullItem} : SvCall(t, tmo, it)
    \/ \E t \in SvThreads : SvEnter(t)
    \/ \E t \in SvThreads : SvReacquire(t)
    \/ \E t \in SvThreads : SvSpurious(t)
    \/ \E t \in SvThreads : SvTimedOut(t)
    \/ \E t \in SvThreads : SvFinish(t)

\* The simple variant: one producer, two consumers that may pass NULL.
SpecSimple == Init /\ [][NextSimple]_vars

\* The step in which monitor_remove(NULL, ..) of t returns (simple variant).
SvNullReturns(t) == svItem[t] = NullItem /\ svPc[t] # "idle" /\ svPc'[t] = "idle"

\* C32 (as claimed): a monitor_remove called with item == NULL returns an
\* error, changes neither the buffer nor count, in and out, and does not leave
\* the mutex held: no thread holds it when the call has returned.
C32_NullRemoveReleases ==
    [][\A t \in SvRemovers :
          SvNullReturns(t) =>
             /\ svLast' = [thread |-> t, code |-> -1]
             /\ UNCHANGED <<simple_buffer, simple_count, simple_in, simple_out>>
             /\ simple_mutex' = NoThread]_vars

\* ======================================================================
\* src/synchronization/monitor.c, extended variant: avg_wait_time.  The code
\* between the wait loop and the unlock (340-355, 407-422) runs under the
\* mutex, so the successful operations update the metrics one after the
\* other, in lock order.  Times are in milliseconds; avg_wait_time is kept as
\* an exact fraction.
\* ======================================================================
StatFrame ==
    UNCHANGED <<monitorVars, tmVars, ptVars, dpVars, rwVars, tpVars, svVars, fkVars, rpVars,
                clVars>>

\* Successful operations in a run.
StatOps == 4
\* What CLOCK_MONOTONIC reads when an operation has left its loop.
EndTimes == {2000, 3000}
\* The time an operation spent between its call and the end of its loop.
WaitTimes == {0, 500, 1000}
\* CLOCK_REALTIME (since 1970) minus CLOCK_MONOTONIC (since boot): stands for
\* a number of the order of 10^12 ms.
RealtimeAhead == 50000
\* timeout_ms of a timed call (the consumer's; 0: no deadline).
StatTimeouts == {0, 1500}
\* What the never written struct timespec ts may hold.
JunkTimes == {0, 2000}

\* ts when the loop is left: the deadline of the wait (CLOCK_REALTIME at the
\* wait, here the start of the call, plus timeout_ms) if a timed wait was
\* made, else whatever the uninitialised variable holds.
TsRead(end, w, tmo, junk) ==
    IF tmo > 0 /\ w > 0 THEN (end - w) + RealtimeAhead + tmo ELSE junk

\* double wait_time = (end_time.tv_sec - ts.tv_sec) + (.. tv_nsec ..) / 1e9;
wait_time(end, ts_read) == end - ts_read

\* avg_wait_time = (avg_wait_time * (n - 1) + wait_time) / n, with n the
\* counter the operation has just incremented.
Averaged(avg, n, wt) == [num |-> avg.num * (n - 1) + wt * avg.den, den |-> avg.den * n]

\* monitor_insert behind its loop, ret == 0.
StatInsert(end, w, tmo, junk) ==
    /\ StatFrame
    /\ stat_insertions + stat_removals < StatOps
    /\ stat_count < BUFFER_SIZE
    /\ stat_count' = stat_count + 1
    /\ stat_insertions' = stat_insertions + 1
    /\ stat_avg' = Averaged(stat_avg, stat_insertions + 1,
                            wait_time(end, TsRead(end, w, tmo, junk)))
    /\ stat_waited' = Append(stat_waited, w)
    /\ UNCHANGED stat_removals

\* monitor_remove behind its loop, ret == 0.
StatRemove(end, w, tmo, junk) ==
    /\ StatFrame
    /\ stat_insertions + stat_removals < StatOps
    /\ stat_count > 0
    /\ stat_count' = stat_count - 1
    /\ stat_removals' = stat_removals + 1
    /\ stat_avg' = Averaged(stat_avg, stat_removals + 1,
                            wait_time(end, TsRead(end, w, tmo, junk)))
    /\ stat_waited' = Append(stat_waited, w)
    /\ UNCHANGED stat_insertions

NextStats ==
    \/ \E end \in EndTimes, w \in WaitTimes, tmo \in StatTimeouts, junk \in JunkTimes :
          StatInsert(end, w, tmo, junk)
    \/ \E end \in EndTimes, w \in WaitTimes, tmo \in StatTimeouts, junk \in JunkTimes :
          StatRemove(end, w, tmo, junk)

SpecStats == Init /\ [][NextStats]_vars

RECURSIVE SumOf(_)
SumOf(q) == IF q = <<>> THEN 0 ELSE Head(q) + SumOf(Tail(q))

\* C33 (as claimed): after k successful operations that waited w1..wk,
\* avg_wait_time = (w1 + ... + wk) / k.
C33_RunningMean ==
    Len(stat_waited) > 0 =>
        stat_avg.num * Len(stat_waited) = SumOf(stat_waited) * stat_avg.den

\* ======================================================================
\* src/synchronization/monitor.c, extended variant: the waiter list after
\* monitor_destroy.
\* ======================================================================
\* monitor_destroy has returned (the call that found the monitor initialized).
Destroyed == pcMain \in {"done", "again"}

\* Records of the waiter list that were freed.
FreedRecords == {j \in 1..Len(waiting_threads) : waiting_threads[j].freed}

\* C34 (as claimed): once monitor_destroy has returned, waiting_threads refers
\* to no record and waiting_count = 0, also when threads were blocked in
\* monitor_insert / monitor_remove at the time of the call; and no thread
\* walks a list that holds a freed record afterwards, in check_deadlock or in
\* remove_waiting_thread.
C34_ListEmptyAfterDestroy ==
    /\ [](Destroyed => (waiting_threads = <<>> /\ waiting_count = 0))
    /\ [][Destroyed =>
            /\ crashed' = crashed
            /\ \A t \in Threads : (Scans(t) \/ Finishes(t)) => FreedRecords = {}]_vars

\* ======================================================================
\* The other dining-philosophers programs.  src/unnamed/part_003 (and, with
\* the same steps, part_002 with pickup_chopsticks / putdown_chopsticks and
\* part_004 from line 239, which also keeps metrics): the philosophers loop
\* for ever; pickup_forks and return_forks hold the mutex from their first to
\* their last statement, so each is one step up to its wait or its return.
\*   think --FkPickup--> wait | eat
\*   wait --FkReturn of a neighbour | FkSpurious--> woken --FkRetry--> ...
\*   eat --FkReturn--> think
\* ======================================================================
FkFrame ==
    UNCHANGED <<monitorVars, tmVars, ptVars, dpVars, rwVars, tpVars, svVars, statVars, rpVars,
                clVars>>

\* while (!can_eat(phil_id)) wait; state[phil_id] = EATING, with st the array
\* the loop condition is evaluated on.
FkTry(p, st) ==
    IF ~can_eat(st, p)
    THEN /\ fkPc' = [fkPc EXCEPT ![p] = "wait"]
         /\ state' = st
    ELSE /\ fkPc' = [fkPc EXCEPT ![p] = "eat"]
         /\ state' = [st EXCEPT ![p] = "EATING"]

\* pickup_forks: state[phil_id] = HUNGRY, then the first try.
FkPickup(p) ==
    /\ fkPc[p] = "think"
    /\ FkTry(p, [state EXCEPT ![p] = "HUNGRY"])
    /\ FkFrame

\* pthread_cond_wait returned: the next try.
FkRetry(p) ==
    /\ fkPc[p] = "woken"
    /\ FkTry(p, state)
    /\ FkFrame

\* pthread_cond_wait may return without a signal.
FkSpurious(p) ==
    /\ fkPc[p] = "wait"
    /\ fkPc' = [fkPc EXCEPT ![p] = "woken"]
    /\ UNCHANGED state
    /\ FkFrame

\* return_forks: state[phil_id] = THINKING; signal each neighbour that can eat.
FkReturn(p) ==
    /\ fkPc[p] = "eat"
    /\ LET st == [state EXCEPT ![p] = "THINKING"] IN
        /\ state' = st
        /\ fkPc' = [q \in Philosophers |->
                       IF q = p THEN "think"
                       ELSE IF q \in {Left(p), Right(p)} /\ can_eat(st, q) /\ fkPc[q] = "wait"
                         THEN "woken"
                       ELSE fkPc[q]]
    /\ FkFrame

NextForks ==
    \/ \E p \in Philosophers : FkPickup(p)
    \/ \E p \in Philosophers : FkRetry(p)
    \/ \E p \in Philosophers : FkSpurious(p)
    \/ \E p \in Philosophers : FkReturn(p)

\* dining_philosophers.c: signal_handler, running = 0, at any moment.
DpSignal ==
    /\ dp_running
    /\ dp_running' = FALSE
    /\ UNCHANGED <<states, meals_eaten, dpPc>>
    /\ DpFrame

\* One of the dining-philosophers programs runs: dining_philosophers.c (with
\* SIGINT at any moment), or the program of part_003.
DiningAtRest == DpInit
ForksAtRest == FkInit

NextTables ==
    \/ ForksAtRest /\ NextDining
    \/ ForksAtRest /\ DpSignal
    \/ DiningAtRest /\ NextForks

SpecTables == Init /\ [][NextTables]_vars

\* No two neighbours are EATING in the array st.
NoNeighboursEating(st) ==
    \A p \in Philosophers : ~(st[p] = "EATING" /\ st[Right(p)] = "EATING")

\* C36: in each dining-philosophers program no two neighbouring philosophers
\* are EATING at the same time, and a philosopher becomes EATING only from
\* HUNGRY: in the step that makes it EATING it was HUNGRY already, or the
\* step is the locked section that begins by making it HUNGRY; either way
\* can_eat held on the array with the philosopher HUNGRY.
C36_NeighboursNeverEatTogether ==
    /\ [](NoNeighboursEating(states) /\ NoNeighboursEating(state))
    /\ [][\A p \in Philosophers :
            /\ (states'[p] = "EATING" /\ states[p] # "EATING") =>
                  /\ states[p] = "HUNGRY" \/ dpPc[p] = "hungry"
                  /\ can_eat([states EXCEPT ![p] = "HUNGRY"], p)
            /\ (state'[p] = "EATING" /\ state[p] # "EATING") =>
                  /\ state[p] = "HUNGRY" \/ fkPc[p] = "think"
                  /\ can_eat([state EXCEPT ![p] = "HUNGRY"], p)]_vars

\* Two philosophers that are not neighbours eat, and a hungry philosopher
\* between them waits (part_003).
C36_Witness ==
    /\ state[1] = "EATING" /\ state[NUM_PHILOSOPHERS - 1] = "EATING"
    /\ state[0] = "HUNGRY" /\ fkPc[0] = "wait"

\* ======================================================================
\* src/unnamed/part_001: readers-writers with readers preference.  The
\* sections of reader_thread and writer_thread that run with the mutex held
\* are one step each; shared_data is read and written with the mutex
\* released.
\*   loop --RpLoop--> enter --RpStartRead | RpStartWrite--> wait | reading | writing
\*   wait --signal, broadcast | RpSpurious--> woken --retry--> wait | ...
\*   writing --RpWrite--> written;  reading, written --RpEndRead | RpEndWrite--> loop
\* ======================================================================
RpFrame ==
    UNCHANGED <<monitorVars, tmVars, ptVars, dpVars, rwVars, tpVars, svVars, statVars, fkVars,
                clVars>>

RpThreads == RpReaders \cup RpWriters

\* while (running && operations < MAX_OPERATIONS)
RpLoop(t) ==
    /\ rpPc[t] = "loop"
    /\ rpPc' = [rpPc EXCEPT ![t] =
                   IF rp_running /\ rp_operations[t] < MAX_OPERATIONS THEN "enter" ELSE "done"]
    /\ UNCHANGED <<rp_readers_count, rp_writers_count, waiting_writers, shared_data, rp_running,
                   rp_operations>>
    /\ RpFrame

\* reader_thread: while (writers_count > 0) wait; readers_count++;
RpReadStep(r) ==
    IF rp_writers_count > 0
    THEN rpPc' = [rpPc EXCEPT ![r] = "wait"] /\ UNCHANGED rp_readers_count
    ELSE rpPc' = [rpPc EXCEPT ![r] = "reading"] /\ rp_readers_count' = rp_readers_count + 1

\* "Try to read", from pthread_mutex_lock, and again after the wait.
RpStartRead(r) ==
    /\ r \in RpReaders
    /\ rpPc[r] \in {"enter", "woken"}
    /\ RpReadStep(r)
    /\ UNCHANGED <<rp_writers_count, waiting_writers, shared_data, rp_running, rp_operations>>
    /\ RpFrame

\* Threads blocked in pthread_cond_wait on writer_cond, and the one a
\* pthread_cond_signal wakes.
RpBlockedWriters == {w \in RpWriters : rpPc[w] = "wait"}
RpSignalWriters == IF RpBlockedWriters = {} THEN {NoThread} ELSE RpBlockedWriters

\* "Finish reading" (the data was read and printed meanwhile), w the writer
\* the signal wakes.
RpEndRead(r, w) ==
    /\ r \in RpReaders
    /\ rpPc[r] = "reading"
    /\ rp_readers_count' = rp_readers_count - 1
    /\ rp_operations' = [rp_operations EXCEPT ![r] = @ + 1]
    /\ w \in (IF rp_readers_count - 1 = 0 /\ waiting_writers > 0
                THEN RpSignalWriters ELSE {NoThread})
    /\ rpPc' = [t \in RpThreads |->
                   IF t = r THEN "loop" ELSE IF t = w THEN "woken" ELSE rpPc[t]]
    /\ UNCHANGED <<rp_writers_count, waiting_writers, shared_data, rp_running>>
    /\ RpFrame

\* writer_thread: while (readers_count > 0 || writers_count > 0) wait;
\* waiting_writers--; writers_count++;  waiting: the value of waiting_writers.
RpWriteStep(w, waiting) ==
    IF rp_readers_count > 0 \/ rp_writers_count > 0
    THEN /\ rpPc' = [rpPc EXCEPT ![w] = "wait"]
         /\ waiting_writers' = waiting
         /\ UNCHANGED rp_writers_count
    ELSE /\ rpPc' = [rpPc EXCEPT ![w] = "writing"]
         /\ waiting_writers' = waiting - 1
         /\ rp_writers_count' = rp_writers_count + 1

\* "Try to write", from pthread_mutex_lock and waiting_writers++.
RpStartWrite(w) ==
    /\ w \in RpWriters
    /\ rpPc[w] = "enter"
    /\ RpWriteStep(w, waiting_writers + 1)
    /\ UNCHANGED <<rp_readers_count, shared_data, rp_running, rp_operations>>
    /\ RpFrame

\* pthread_cond_wait returned: the loop condition again.
RpWriteRetry(w) ==
    /\ w \in RpWriters
    /\ rpPc[w] = "woken"
    /\ RpWriteStep(w, waiting_writers)
    /\ UNCHANGED <<rp_readers_count, shared_data, rp_running, rp_operations>>
    /\ RpFrame

\* shared_data++;
RpWrite(w) ==
    /\ w \in RpWriters
    /\ rpPc[w] = "writing"
    /\ shared_data' = shared_data + 1
    /\ rpPc' = [rpPc EXCEPT ![w] = "written"]
    /\ UNCHANGED <<rp_readers_count, rp_writers_count, waiting_writers, rp_running,
                   rp_operations>>
    /\ RpFrame

\* "Finish writing": signal one writer if one waits (u), else wake all readers.
RpEndWrite(w, u) ==
    /\ w \in RpWriters
    /\ rpPc[w] = "written"
    /\ rp_writers_count' = rp_writers_count - 1
    /\ rp_operations' = [rp_operations EXCEPT ![w] = @ + 1]
    /\ u \in (IF waiting_writers > 0 THEN RpSignalWriters ELSE {NoThread})
    /\ rpPc' = [t \in RpThreads |->
                   IF t = w THEN "loop"
                   ELSE IF waiting_writers = 0 /\ t \in RpReaders /\ rpPc[t] = "wait"
                     THEN "woken"
                   ELSE IF t = u THEN "woken"
                   ELSE rpPc[t]]
    /\ UNCHANGED <<rp_readers_count, waiting_writers, shared_data, rp_running>>
    /\ RpFrame

\* pthread_cond_wait may return without a signal.
RpSpurious(t) ==
    /\ rpPc[t] = "wait"
    /\ rpPc' = [rpPc EXCEPT ![t] = "woken"]
    /\ UNCHANGED <<rp_readers_count, rp_writers_count, waiting_writers, shared_data, rp_running,
                   rp_operations>>
    /\ RpFrame

\* signal_handler: running = 0, at any moment.
RpSignal ==
    /\ rp_running
    /\ rp_running' = FALSE
    /\ UNCHANGED <<rp_readers_count, rp_writers_count, waiting_writers, shared_data,
                   rp_operations, rpPc>>
    /\ RpFrame

NextPref ==
    \/ \E t \in RpThreads : RpLoop(t)
    \/ \E r \in RpReaders : RpStartRead(r)
    \/ \E r \in RpReaders, w \in RpWriters \cup {NoThread} : RpEndRead(r, w)
    \/ \E w \in RpWriters : RpStartWrite(w)
    \/ \E w \in RpWriters : RpWriteRetry(w)
    \/ \E w \in RpWriters : RpWrite(w)
    \/ \E w \in RpWriters, u \in RpWriters \cup {NoThread} : RpEndWrite(w, u)
    \/ \E t \in RpThreads : RpSpurious(t)
    \/ RpSignal

\* One of the two readers-writers programs runs: readers_writers.c, or the
\* program of part_001.
PrefAtRest == RpInit
MonitorRwAtRest == RwInit

NextAccess ==
    \/ PrefAtRest /\ NextRW
    \/ MonitorRwAtRest /\ NextPref

SpecAccess == Init /\ [][NextAccess]_vars

\* Threads between start_read and end_read / start_write and end_write
\* (readers_writers.c), and threads that have the use of shared_data
\* (part_001).
ActiveReaders == {r \in Readers : rwPc[r] = "active"}
ActiveWriters == {w \in Writers : rwPc[w] = "active"}
RpReading == {r \in RpReaders : rpPc[r] = "reading"}
RpWriting == {w \in RpWriters : rpPc[w] \in {"writing", "written"}}

\* C37: in both readers-writers programs at most one writer is active and no
\* reader reads while a writer is active.  readers_writers.c: writer_active
\* implies readers_count = 0, and the threads past start_write / start_read
\* are at most one writer, or readers only.  part_001: writers_count <= 1 and
\* not (writers_count > 0 and readers_count > 0), and a thread writes
\* shared_data only while no other thread reads or writes it.
C37_WritersExclude ==
    /\ writer_active => readers_count = 0
    /\ Cardinality(ActiveWriters) <= 1
    /\ ActiveWriters # {} => ActiveReaders = {}
    /\ writer_active <=> ActiveWriters # {}
    /\ readers_count = Cardinality(ActiveReaders)
    /\ rp_writers_count <= 1
    /\ ~(rp_writers_count > 0 /\ rp_readers_count > 0)
    /\ Cardinality(RpWriting) <= 1
    /\ RpWriting # {} => RpReading = {}
    /\ rp_writers_count = Cardinality(RpWriting)
    /\ rp_readers_count = Cardinality(RpReading)

\* part_001: a writer has the data to itself after an earlier write, while
\* the other writer and a reader are kept waiting.
C37_Witness ==
    /\ rpPc["writer0"] = "writing" /\ shared_data > 0
    /\ rpPc["writer1"] = "wait"
    /\ rpPc["reader0"] = "wait"

\* ======================================================================
\* src/threads/thread_pool.c, its exported functions used by several
\* threads: Clients call thread_pool_submit, another thread calls
\* thread_pool_shutdown at a moment of its choice.  The sections that run
\* with queue_mutex held are one step each.
\*   client: idle --ClCall--> idle | full,  full --signal | ClSpurious--> woken
\*           woken --ClRetry--> idle | full
\*   worker: lock --ClWorker--> wait | exec | exited,  exec --ClExecute--> lock
\*   main:   run --ClShutdown--> join --ClJoin--> done
\* ======================================================================
ClFrame ==
    UNCHANGED <<monitorVars, tmVars, ptVars, dpVars, rwVars, tpVars, svVars, statVars, fkVars,
                rpVars>>

\* Workers blocked on queue_not_empty, callers blocked on queue_not_full, and
\* the thread a pthread_cond_signal wakes (0 if none waits).
ClIdleWorkers == {w \in Workers : cwPc[w] = "wait"}
ClBlocked == {c \in Clients : clPc[c] = "full"}
ClSignalNotEmpty == IF ClIdleWorkers = {} THEN {0} ELSE ClIdleWorkers
ClSignalNotFull == IF ClBlocked = {} THEN {0} ELSE ClBlocked

\* add_task: the test of the wait loop.
ClMustWait == cl_queue_size = TASK_QUEUE_SIZE /\ cl_shutdown = 0

\* add_task returns val to caller c.
ClReturn(c, val) ==
    /\ clRet' = [clRet EXCEPT ![c] = val]
    /\ clLeft' = [clLeft EXCEPT ![c] = @ - 1]

\* add_task of caller c from its wait loop on; w is the worker the signal on
\* queue_not_empty wakes.
ClAddStep(c, w) ==
    IF ClMustWait
    THEN /\ clPc' = [clPc EXCEPT ![c] = "full"]
         /\ w = 0
         /\ UNCHANGED <<cl_task_queue, cl_queue_size, cl_queue_rear, cwPc, clRet, clLeft>>
    ELSE IF cl_shutdown # 0
    THEN /\ clPc' = [clPc EXCEPT ![c] = "idle"]
         /\ ClReturn(c, -1)
         /\ w = 0
         /\ UNCHANGED <<cl_task_queue, cl_queue_size, cl_queue_rear, cwPc>>
    ELSE /\ clPc' = [clPc EXCEPT ![c] = "idle"]
         /\ cl_task_queue' = [cl_task_queue EXCEPT ![cl_queue_rear] = c]
         /\ cl_queue_rear' = (cl_queue_rear + 1) % TASK_QUEUE_SIZE
         /\ cl_queue_size' = cl_queue_size + 1
         /\ w \in ClSignalNotEmpty
         /\ cwPc' = [v \in Workers |-> IF v = w THEN "woken" ELSE cwPc[v]]
         /\ ClReturn(c, 0)

\* A thread calls thread_pool_submit.
ClCall(c, w) ==
    /\ clPc[c] = "idle" /\ clLeft[c] > 0
    /\ ~cl_destroyed
    /\ ClAddStep(c, w)
    /\ UNCHANGED <<cl_queue_front, cl_shutdown, cl_destroyed, clMain>>
    /\ ClFrame

\* pthread_cond_wait(&pool.queue_not_full) returned in add_task.
ClRetry(c, w) ==
    /\ clPc[c] = "woken"
    /\ ~cl_destroyed
    /\ ClAddStep(c, w)
    /\ UNCHANGED <<cl_queue_front, cl_shutdown, cl_destroyed, clMain>>
    /\ ClFrame

\* pthread_cond_wait may return without a signal.
ClSpurious(c) ==
    /\ clPc[c] = "full"
    /\ ~cl_destroyed
    /\ clPc' = [clPc EXCEPT ![c] = "woken"]
    /\ UNCHANGED <<cl_task_queue, cl_queue_size, cl_queue_front, cl_queue_rear, cl_shutdown,
                   cl_destroyed, clRet, clLeft, cwPc, clMain>>
    /\ ClFrame

\* add_task locks queue_mutex after thread_pool_shutdown has destroyed it
\* (a new call, or a caller whose wait had ended): undefined.  The lock
\* fails and add_task, which tests no return value, goes on to find
\* shutdown set (hangs = FALSE), or the thread never returns.
ClAfterDestroy(c, hangs) ==
    /\ cl_destroyed
    /\ \/ clPc[c] = "idle" /\ clLeft[c] > 0
       \/ clPc[c] = "woken"
    /\ IF hangs
       THEN clPc' = [clPc EXCEPT ![c] = "lost"] /\ UNCHANGED <<clRet, clLeft>>
       ELSE clPc' = [clPc EXCEPT ![c] = "idle"] /\ ClReturn(c, -1)
    /\ UNCHANGED <<cl_task_queue, cl_queue_size, cl_queue_front, cl_queue_rear, cl_shutdown,
                   cl_destroyed, cwPc, clMain>>
    /\ ClFrame

\* worker_thread from pthread_mutex_lock (or from the return of
\* pthread_cond_wait) to its wait, its exit, or the unlock after taking a
\* task; c is the caller the signal on queue_not_full wakes.
ClWorker(w, c) ==
    /\ cwPc[w] \in {"lock", "woken"}
    /\ IF cl_queue_size = 0 /\ cl_shutdown = 0
       THEN /\ cwPc' = [cwPc EXCEPT ![w] = "wait"]
            /\ c = 0
            /\ UNCHANGED <<cl_queue_size, cl_queue_front, clPc>>
       ELSE IF cl_shutdown # 0 /\ cl_queue_size = 0
       THEN /\ cwPc' = [cwPc EXCEPT ![w] = "exited"]
            /\ c = 0
            /\ UNCHANGED <<cl_queue_size, cl_queue_front, clPc>>
       ELSE /\ cwPc' = [cwPc EXCEPT ![w] = "exec"]
            /\ cl_queue_front' = (cl_queue_front + 1) % TASK_QUEUE_SIZE
            /\ cl_queue_size' = cl_queue_size - 1
            /\ c \in ClSignalNotFull
            /\ clPc' = [d \in Clients |-> IF d = c THEN "woken" ELSE clPc[d]]
    /\ UNCHANGED <<cl_task_queue, cl_queue_rear, cl_shutdown, cl_destroyed, clRet, clLeft,
                   clMain>>
    /\ ClFrame

\* execute_task(&task).
ClExecute(w) ==
    /\ cwPc[w] = "exec"
    /\ cwPc' = [cwPc EXCEPT ![w] = "lock"]
    /\ UNCHANGED <<cl_task_queue, cl_queue_size, cl_queue_front, cl_queue_rear, cl_shutdown,
                   cl_destroyed, clPc, clRet, clLeft, clMain>>
    /\ ClFrame

ClWorkerSpurious(w) ==
    /\ cwPc[w] = "wait"
    /\ cwPc' = [cwPc EXCEPT ![w] = "woken"]
    /\ UNCHANGED <<cl_task_queue, cl_queue_size, cl_queue_front, cl_queue_rear, cl_shutdown,
                   cl_destroyed, clPc, clRet, clLeft, clMain>>
    /\ ClFrame

\* thread_pool_shutdown up to its first pthread_join: shutdown = 1 and a
\* broadcast on queue_not_empty.
ClShutdown ==
    /\ clMain = "run"
    /\ cl_shutdown' = 1
    /\ cwPc' = [w \in Workers |-> IF cwPc[w] = "wait" THEN "woken" ELSE cwPc[w]]
    /\ clMain' = "join"
    /\ UNCHANGED <<cl_task_queue, cl_queue_size, cl_queue_front, cl_queue_rear, cl_destroyed,
                   clPc, clRet, clLeft>>
    /\ ClFrame

\* thread_pool_shutdown: every pthread_join has returned; the mutex and the
\* conditions are destroyed.
ClJoin ==
    /\ clMain = "join"
    /\ \A w \in Workers : cwPc[w] = "exited"
    /\ clMain' = "done"
    /\ cl_destroyed' = TRUE
    /\ UNCHANGED <<cl_task_queue, cl_queue_size, cl_queue_front, cl_queue_rear, cl_shutdown,
                   clPc, clRet, clLeft, cwPc>>
    /\ ClFrame

NextClients ==
    \/ \E c \in Clients, w \in Workers \cup {0} : ClCall(c, w)
    \/ \E c \in Clients, w \in Workers \cup {0} : ClRetry(c, w)
    \/ \E c \in Clients : ClSpurious(c)
    \/ \E c \in Clients, hangs \in BOOLEAN : ClAfterDestroy(c, hangs)
    \/ \E w \in Workers, c \in Clients \cup {0} : ClWorker(w, c)
    \/ \E w \in Workers : ClExecute(w)
    \/ \E w \in Workers : ClWorkerSpurious(w)
    \/ ClShutdown
    \/ ClJoin

\* Fair scheduling: a worker that can run does, a caller whose wait has ended
\* takes the mutex, the joins return.  Calls, the shutdown and wake-ups
\* without a signal are never owed.
SpecClients ==
    /\ Init /\ [][NextClients]_vars
    /\ \A w \in Workers : WF_vars((\E c \in Clients \cup {0} : ClWorker(w, c)) \/ ClExecute(w))
    /\ \A c \in Clients : WF_vars(\E w \in Workers \cup {0} : ClRetry(c, w))
    /\ \A c \in Clients : WF_vars(ClAfterDestroy(c, FALSE))
    /\ WF_vars(ClJoin)

\* An add_task call of c returns in this step.
ClReturns(c) == clLeft'[c] # clLeft[c]

\* c is inside add_task.
ClInside(c) == clPc[c] \in {"full", "woken", "lost"}

\* An add_task call that returns when shutdown is set returns -1 and leaves
\* the queue as it was.
RejectsAfterShutdown ==
    [][\A c \in Clients :
          (ClReturns(c) /\ cl_shutdown # 0) =>
              /\ clRet'[c] = -1
              /\ UNCHANGED <<cl_queue_size, cl_queue_rear, cl_task_queue>>]_vars

\* A caller inside add_task when shutdown is set gets its return.
BlockedCallerReturns ==
    \A c \in Clients : (ClInside(c) /\ cl_shutdown # 0) ~> (clPc[c] = "idle")

\* C39: once thread_pool_shutdown has set the shutdown flag, every add_task /
\* thread_pool_submit call, one that was blocked waiting for queue space
\* included, returns -1 without enqueuing (queue_size, queue_rear and the
\* queue contents are not changed by it), and a blocked caller does not stay
\* blocked for ever.
C39_SubmitAfterShutdown ==
    /\ RejectsAfterShutdown
    /\ BlockedCallerReturns
====
